---------------------------- MODULE Spec2Model ----------------------------
(***************************************************************************)
(* Model of the AkaiAPCmini event pipeline:                                *)
(*   - MIDIMessageQueue   (src/src/midi_message_queue.{h,cpp})             *)
(*   - MIDIEventHandler   (src/src/midi_event_handler.{h,cpp})             *)
(*                                                                         *)
(* SpecQueue    : the queue API called by one thread, one call per step.   *)
(* SpecMP       : Enqueue/Dequeue split at their atomic operations, run by *)
(*                several producer threads and one consumer thread.        *)
(* SpecDispatch : the event handler on top of the queue.                   *)
(***************************************************************************)
EXTENDS Integers, Sequences, FiniteSets, Bags, TLC

(***************************************************************************)
(* Bounds of the model.                                                    *)
(***************************************************************************)
\* MIDI_QUEUE_SIZE_BITS is 12 in midi_message_queue.h:101 (4096 slots); the
\* model runs the same ring on 2^2 = 4 slots (usable capacity 3).
MIDI_QUEUE_SIZE_BITS == 2
\* Longest recorded history of queue API calls in SpecQueue.
MaxOps == 8
\* Number of clock advances allowed, and the number allowed in SpecQueue.
MaxTicks == 3
MaxQueueTicks == 1
\* Producer threads of SpecMP and the Enqueue calls they start in total.
NumProducers == 2
MaxEnqueues == 3
\* Dequeue calls the consumer of SpecMP starts in total.
MaxDequeues == 4
\* max_batch is 32 in midi_event_handler.cpp:188 and MAX_CALLBACKS is 32 in
\* midi_event_handler.h:181; the model runs the same loops with smaller limits,
\* below the capacity of the scaled queue.
max_batch == 2
MAX_CALLBACKS == 2
\* Events submitted through the handler, and GUI-origin events remembered in guiLog.
MaxSubmits == 2
MaxGuiEvents == 3
\* Ids RegisterCallback hands out in SpecRegistry, and events submitted in SpecBatch.
MaxIds == 4
MaxBatchSubmits == 3
\* Processing threads StartProcessing spawns in SpecLooper.
MaxWorkers == 2
\* Threads that call into USBRawMIDI, calls each of them makes, and the
\* number of updates in one SetPadColorsBatch call (64 in the claim).
NumWriters == 2
MaxCalls == 2
BatchCount == 2
MaxSysExLen == 7
GridPads == 2

(***************************************************************************)
(* Program constants.  The counters of the program are 32 and 64 bits wide; *)
(* the bounds above keep every counter of the model far below 2^31, so no  *)
(* counter wraps and the widths are not represented.                       *)
(***************************************************************************)
\* RegisterCallback calls that are given an id
MaxRegistrations == MAX_CALLBACKS

MIDI_QUEUE_SIZE == 2 ^ MIDI_QUEUE_SIZE_BITS
MIDI_QUEUE_MASK == MIDI_QUEUE_SIZE - 1
MIDI_SOURCE_HARDWARE_USB == 0
MIDI_SOURCE_HARDWARE_MIDI == 1
MIDI_SOURCE_GUI == 2
MIDI_SOURCE_SIMULATION == 3

MIDI_PRIORITY_REALTIME == 0
MIDI_PRIORITY_HIGH == 1
MIDI_PRIORITY_NORMAL == 2
MIDI_PRIORITY_LOW == 3
MIDI_PRIORITY_GUI == 4

FEEDBACK_PREVENTION_WINDOW_MS == 50

\* enum APCMiniError
APC_SUCCESS == 0
APC_ERROR_DEVICE_NOT_FOUND == 1
APC_ERROR_USB_TRANSFER_FAILED == 4
APC_ERROR_INVALID_PARAMETER == 7

APC_MINI_PAD_COUNT == 64
APC_MINI_PAD_NOTE_START == 0
APC_MINI_FADER_CC_START == 48
APC_MINI_FADER_CC_END == 55
APC_MINI_MASTER_CC == 56
APC_MINI_TRACK_FADER_COUNT == 8
MIDI_NOTE_ON == 144
MIDI_NOTE_OFF == 128
MIDI_CONTROL_CHANGE == 176
PAD_NOTE_TEST == 56

\* holders of endpoint_lock: nobody, the reader thread, or a writer 1 .. NumWriters
LockFree == -1
ReaderThread == 0

\* system_time() when the program starts, and the step of the model clock (us).
StartTime == 100 * 1000
TickUs == 20 * 1000

(***************************************************************************)
(* State.                                                                  *)
(***************************************************************************)
VARIABLES
    buffer,            \* MIDIMessage buffer[MIDI_QUEUE_SIZE]
    write_index,       \* std::atomic<uint32_t>
    read_index,        \* std::atomic<uint32_t>
    sequence_counter,  \* std::atomic<uint32_t>
    stats,             \* MIDIQueueStats
    now,               \* system_time(), microseconds
    ticks,             \* clock advances so far
    history,           \* completed direct calls of the queue API: [op, ret, msg, seq]
    pc,                \* SpecMP: position of each producer inside Enqueue
    loc,               \* SpecMP: locals of each producer's Enqueue
    cpc,               \* SpecMP: position of the consumer inside Dequeue
    cloc,              \* SpecMP: locals of the consumer's Dequeue
    started,           \* SpecMP: calls started, [enq, deq]
    message_queue,     \* MIDIEventHandler: a queue is attached (non-null)
    callbacks,         \* std::vector<CallbackEntry>
    next_callback_id,  \* std::atomic<CallbackID>
    global_filter,     \* MIDIEventFilter
    prevent_feedback,  \* std::atomic<bool>
    last_gui_message_time,  \* std::atomic<uint32_t>, milliseconds
    priority_map,      \* uint8_t priority_map[128]
    metrics,           \* MIDIEventMetrics
    lastDrain,         \* what the call just completed did, if it was ProcessPendingEvents
    guiLog,            \* the first GUI-origin events processed: when, policy on, outcome
    lastRegister,      \* what the last RegisterCallback call returned, -1 before any
    looper,            \* MIDIEventLooper: [is_processing, should_quit, processing_thread], and
                       \* joining, the thread a StopProcessing call is waiting for
    worker,            \* position of each processing thread ever spawned
    lpc,               \* position of the thread that calls Start/StopProcessing
    lnoops,            \* Start/StopProcessing calls that found nothing to do
    usb,               \* USBRawMIDI: device, flags, pause_sem, endpoint_lock, stats
    rpc,               \* position of the reader thread in ReaderThreadLoop
    wth,               \* the threads that call into USBRawMIDI: position and locals
    wire,              \* packets the OUT endpoint transferred, in order
    device_state,      \* APCMiniGUIApp::device_state (fader values) and the last controller handled
    lastSetPriority,   \* the arguments of the last SetEventPriority call, if any
    iteration          \* the processing thread inside ProcessPendingEvents, step by step:
                       \* the message in hand, the position of the range-for of
                       \* ExecuteCallbacks and the vector as it was at begin()

hvars == <<message_queue, callbacks, next_callback_id, global_filter,
           prevent_feedback, last_gui_message_time, priority_map, metrics,
           lastDrain, guiLog, lastRegister>>
lvars == <<looper, worker, lpc, lnoops>>
uvars == <<usb, rpc, wth, wire, device_state, iteration, lastSetPriority>>
ovars == <<lvars, uvars>>
vars == <<buffer, write_index, read_index, sequence_counter, stats, now, ticks,
          history, pc, loc, cpc, cloc, started, hvars, ovars>>

(***************************************************************************)
(* MIDIMessage.                                                            *)
(***************************************************************************)
\* struct MIDIMessage, default constructor
DefaultMIDIMessage ==
    [status |-> 0, data1 |-> 0, data2 |-> 0, source |-> MIDI_SOURCE_HARDWARE_USB,
     priority |-> 2, sysex_length |-> 0, timestamp |-> 0, sequence |-> 0]

Msg(s, d1, d2, src, prio, ts) ==
    [DefaultMIDIMessage EXCEPT !.status = s, !.data1 = d1, !.data2 = d2,
                               !.source = src, !.priority = prio, !.timestamp = ts]

\* Messages handed to Enqueue in the queue specifications: a note-on from the
\* USB reader with no timestamp yet, and a SysEx from the GUI stamped by its caller.
InputMessages ==
    { Msg(144, 5, 127, MIDI_SOURCE_HARDWARE_USB, MIDI_PRIORITY_HIGH, 0),
      Msg(240, 71, 1, MIDI_SOURCE_GUI, MIDI_PRIORITY_LOW, 90000) }

(***************************************************************************)
(* MIDIMessageQueue helpers.                                               *)
(***************************************************************************)
GetNextIndexShortRing(current) == (current + 1) % (MIDI_QUEUE_SIZE - 1)

\* GetNextIndex: (current + 1) & MIDI_QUEUE_MASK, the mask being 2^bits - 1
GetNextIndex(current) == (current + 1) % (MIDI_QUEUE_MASK + 1)

\* GetQueueDepth on given index values
QueueDepth(w, r) == IF w >= r THEN w - r ELSE (MIDI_QUEUE_SIZE - r) + w

GetQueueDepth == QueueDepth(write_index, read_index)

IsEmpty == read_index = write_index

IsFull == GetNextIndex(write_index) = read_index

StampAlways(message, seq, t) ==
    [message EXCEPT !.sequence = seq, !.timestamp = t]

\* Enqueue lines 47-55: copy, stamp the sequence number, set a missing timestamp
StampMessage(message, seq, t) ==
    [message EXCEPT !.sequence = seq,
                    !.timestamp = IF message.timestamp = 0 THEN t ELSE message.timestamp]

\* UpdateQueueDepthStats: max_queue_depth = max(max_queue_depth, depth)
UpdateQueueDepthStats(st, depth) ==
    IF depth > st.max_queue_depth THEN [st EXCEPT !.max_queue_depth = depth] ELSE st

\* UpdateLatencyStats: latency added to the total, maximum kept.  Every
\* timestamp of the model lies in the past and every latency far below
\* UINT32_MAX, so the clamp and the unsigned conversions never act.
UpdateLatencyStats(st, message_timestamp, t) ==
    LET latency == t - message_timestamp
    IN [st EXCEPT !.total_latency_us = @ + latency,
                  !.max_latency_us = IF latency > @ THEN latency ELSE @]

\* Enqueue lines 41-42: the statistics of a rejected message
StatsDropped(st) ==
    [st EXCEPT !.messages_dropped = @ + 1,
               !.overflow_events = @ + 1]

\* Enqueue lines 66-71: the statistics of an accepted message
StatsEnqueued(st, source, depth) ==
    UpdateQueueDepthStats(
        [st EXCEPT !.messages_enqueued = @ + 1,
                   !.source_counts[source] = @ + 1],
        depth)

\* Dequeue lines 104-107
StatsDequeued(st, message_timestamp, t) ==
    [UpdateLatencyStats(st, message_timestamp, t)
        EXCEPT !.messages_dequeued = @ + 1]

\* MIDIMessageQueue::MIDIMessageQueue and the member initialisers
InitQueue ==
    /\ buffer = [i \in 0 .. MIDI_QUEUE_SIZE - 1 |-> DefaultMIDIMessage]
    /\ write_index = 0
    /\ read_index = 0
    /\ sequence_counter = 0
    /\ stats = [messages_enqueued |-> 0, messages_dequeued |-> 0,
                messages_dropped |-> 0, max_queue_depth |-> 0,
                total_latency_us |-> 0, max_latency_us |-> 0,
                source_counts |-> [s \in 0 .. 3 |-> 0],
                last_reset_time |-> StartTime, overflow_events |-> 0]

InitThreads ==
    /\ pc = [p \in 1 .. NumProducers |-> "idle"]
    /\ loc = [p \in 1 .. NumProducers |->
                [message |-> DefaultMIDIMessage, current_write |-> 0,
                 next_write |-> 0, msg_copy |-> DefaultMIDIMessage]]
    /\ cpc = "idle"
    /\ cloc = [current_read |-> 0, message |-> DefaultMIDIMessage]
    /\ started = [enq |-> 0, deq |-> 0]

(***************************************************************************)
(* MIDIEventFilter and the priority table of MIDIEventHandler.             *)
(***************************************************************************)
\* struct MIDIEventFilter with its default member initialisers
DefaultFilter ==
    [accept_note_on |-> TRUE, accept_note_off |-> TRUE, accept_cc |-> TRUE,
     accept_sysex |-> TRUE, accept_from_hardware |-> TRUE, accept_from_gui |-> TRUE,
     min_velocity |-> 0, max_velocity |-> 127]

\* Filters handed to RegisterCallback / SetGlobalFilter
NoSysExFilter == [DefaultFilter EXCEPT !.accept_sysex = FALSE]
LoudHardwareFilter ==
    [DefaultFilter EXCEPT !.accept_from_gui = FALSE, !.min_velocity = 64]
GlobalFilters == {DefaultFilter, NoSysExFilter}

\* status & 0xF0 on a uint8_t
HighNibble(status) == (status \div 16) * 16

\* MIDIEventFilter::ShouldAccept
ShouldAccept(filter, msg) ==
    LET status == HighNibble(msg.status)
        type_ok ==
            CASE status = 144 -> /\ filter.accept_note_on
                                 /\ ~(msg.data2 < filter.min_velocity
                                      \/ msg.data2 > filter.max_velocity)
              [] status = 128 -> filter.accept_note_off
              [] status = 176 -> filter.accept_cc
              [] status = 240 -> filter.accept_sysex
              [] OTHER -> TRUE
        source_ok ==
            CASE msg.source \in {MIDI_SOURCE_HARDWARE_USB, MIDI_SOURCE_HARDWARE_MIDI}
                    -> filter.accept_from_hardware
              [] msg.source = MIDI_SOURCE_GUI -> filter.accept_from_gui
              [] OTHER -> TRUE
    IN type_ok /\ source_ok

\* MIDIEventHandler::GetDefaultPriority
GetDefaultPriority(status) ==
    CASE HighNibble(status) \in {128, 144} -> MIDI_PRIORITY_HIGH
      [] HighNibble(status) = 176 -> MIDI_PRIORITY_NORMAL
      [] HighNibble(status) = 240 ->
            IF status >= 248 THEN MIDI_PRIORITY_REALTIME ELSE MIDI_PRIORITY_LOW
      [] OTHER -> MIDI_PRIORITY_NORMAL

\* MIDIEventHandler::GetEventPriority on a given priority_map
EventPriority(map, message_type) ==
    IF message_type < 128 THEN map[message_type] ELSE MIDI_PRIORITY_NORMAL

GetEventPriority(message_type) == EventPriority(priority_map, message_type)

\* lastDrain when the call just completed was not ProcessPendingEvents
NoDrain == [active |-> FALSE, last_gui_before |-> 0, drained |-> <<>>, calls |-> <<>>]

\* SetEventPriority has not been called
NoSetPriority == [called |-> FALSE, message_type |-> 0, priority |-> 0]

\* no thread is inside the loop of ProcessPendingEvents
NoIteration ==
    [active |-> FALSE, next |-> 0, registry |-> <<>>, message |-> DefaultMIDIMessage,
     processed |-> 0]

\* MIDIEventHandler::MIDIEventHandler and the member initialisers
InitHandler ==
    /\ message_queue = FALSE
    /\ callbacks = <<>>
    /\ next_callback_id = 1
    /\ global_filter = DefaultFilter
    /\ prevent_feedback = TRUE
    /\ last_gui_message_time = 0
    /\ priority_map = [i \in 0 .. 127 |-> GetDefaultPriority(i)]
    /\ metrics = [events_processed |-> 0, events_filtered |-> 0,
                  callbacks_executed |-> 0, max_processing_time_us |-> 0,
                  avg_processing_time_us |-> 0, current_queue_depth |-> 0]
    /\ lastDrain = NoDrain
    /\ guiLog = <<>>
    /\ lastRegister = -1

\* MIDIEventLooper::MIDIEventLooper and the member initialisers; no thread yet
InitLooper ==
    /\ looper = [is_processing |-> FALSE, should_quit |-> FALSE, processing_thread |-> -1,
                 joining |-> -1]
    /\ worker = [w \in 1 .. MaxWorkers |-> "unborn"]
    /\ lpc = "idle"
    /\ lnoops = {}

\* locals of a thread that is not inside a USBRawMIDI call
IdleWriter ==
    [pc |-> "idle", op |-> "none", args |-> <<>>, msg |-> <<>>, i |-> 0, result |-> APC_SUCCESS,
     ret |-> APC_SUCCESS, incs |-> 0, sent |-> 0, acked |-> FALSE, calls |-> 0]

\* a note-on packet as the device sends it when a pad is pressed
PadPressPacket == [cn |-> 0, cin |-> 9, midi |-> <<MIDI_NOTE_ON, 0, 127>>]

\* USBRawMIDI::USBRawMIDI (usb_haiku_midi.cpp); pause_sem holds the count of
\* the semaphore create_sem(0, ...) returned
InitUSB ==
    /\ usb = [device_fd |-> -1, shutting_down |-> FALSE, found_device |-> FALSE, reader_thread |-> -1,
              should_stop |-> FALSE, pause_requested |-> FALSE, is_paused |-> FALSE,
              pause_sem |-> 0, endpoint_lock |-> LockFree,
              messages_sent |-> 0, messages_received |-> 0, error_count |-> 0,
              delivered |-> <<>>, rx |-> [result |-> 0, packet |-> PadPressPacket]]
    /\ rpc = "unborn"
    /\ wth = [w \in 1 .. NumWriters |-> IdleWriter]
    /\ wire = <<>>

\* APCMiniState, zero-initialised; no controller handled yet
InitDeviceState ==
    device_state = [track_fader_values |-> [i \in 0 .. APC_MINI_TRACK_FADER_COUNT - 1 |-> 0],
                    master_fader_value |-> 0,
                    out_of_bounds |-> FALSE,
                    handled |-> <<>>,
                    changes |-> 0]

Init ==
    /\ InitDeviceState
    /\ iteration = NoIteration
    /\ lastSetPriority = NoSetPriority
    /\ InitQueue
    /\ InitThreads
    /\ InitHandler
    /\ InitLooper
    /\ InitUSB
    /\ now = StartTime
    /\ ticks = 0
    /\ history = <<>>

(***************************************************************************)
(* The queue operations as functions of the queue state                    *)
(*   q = [buffer, write_index, read_index, sequence_counter, stats]        *)
(* and of the clock t.  Each yields the new queue state and what the call  *)
(* returns.                                                                *)
(***************************************************************************)
Queue ==
    [buffer |-> buffer, write_index |-> write_index, read_index |-> read_index,
     sequence_counter |-> sequence_counter, stats |-> stats]

SetQueue(q) ==
    /\ buffer' = q.buffer
    /\ write_index' = q.write_index
    /\ read_index' = q.read_index
    /\ sequence_counter' = q.sequence_counter
    /\ stats' = q.stats

\* The overflow policy the header comment announces (evict the oldest message)
\* in place of the one Enqueue implements.
EnqueueEvictOldest(q, message, t) ==
    LET current_write == q.write_index
        next_write == GetNextIndex(current_write)
        full == next_write = q.read_index
        msg_copy == StampMessage(message, q.sequence_counter, t)
    IN [q |-> [q EXCEPT
                 !.buffer = [q.buffer EXCEPT ![current_write] = msg_copy],
                 !.write_index = next_write,
                 !.read_index = IF full THEN GetNextIndex(q.read_index) ELSE @,
                 !.sequence_counter = @ + 1,
                 !.stats = IF full THEN StatsDropped(q.stats)
                           ELSE StatsEnqueued(q.stats, message.source,
                                              QueueDepth(next_write, q.read_index))],
        ret |-> ~full,
        seq |-> q.sequence_counter]

\* MIDIMessageQueue::Enqueue
EnqueueOn(q, message, t) ==
    LET current_write == q.write_index
        next_write == GetNextIndex(current_write)
        current_read == q.read_index
    IN IF next_write = current_read
       THEN [q |-> [q EXCEPT !.stats = StatsDropped(q.stats)],
             ret |-> FALSE, seq |-> -1]
       ELSE LET msg_copy == StampMessage(message, q.sequence_counter, t)
            IN [q |-> [q EXCEPT
                         !.sequence_counter = @ + 1,
                         !.buffer = [q.buffer EXCEPT ![current_write] = msg_copy],
                         !.write_index = next_write,
                         !.stats = StatsEnqueued(q.stats, message.source,
                                                 QueueDepth(next_write, q.read_index))],
                ret |-> TRUE, seq |-> q.sequence_counter]

\* MIDIMessageQueue::Dequeue
DequeueOn(q, t) ==
    LET current_read == q.read_index
        current_write == q.write_index
    IN IF current_read = current_write
       THEN [q |-> q, ret |-> FALSE, message |-> DefaultMIDIMessage]
       ELSE LET message == q.buffer[current_read]
            IN [q |-> [q EXCEPT
                         !.read_index = GetNextIndex(current_read),
                         !.stats = StatsDequeued(q.stats, message.timestamp, t)],
                ret |-> TRUE, message |-> message]

(***************************************************************************)
(* SpecQueue: one thread calls the queue API.                              *)
(***************************************************************************)
\* history entry: the call, its return value, the message passed in (Enqueue)
\* or handed out (Dequeue) and the sequence number the message carries
Record(op, ret, msg, seq) ==
    Append(history, [op |-> op, ret |-> ret, msg |-> msg, seq |-> seq])

\* a call of Enqueue
Enqueue(message) ==
    /\ Len(history) < MaxOps
    /\ LET r == EnqueueOn(Queue, message, now)
       IN /\ SetQueue(r.q)
          /\ history' = Record("Enqueue", r.ret, message, r.seq)
    /\ UNCHANGED <<ovars, lastRegister, now, ticks, pc, loc, cpc, cloc, started, hvars>>

\* a call of Dequeue
Dequeue ==
    /\ Len(history) < MaxOps
    /\ LET r == DequeueOn(Queue, now)
       IN /\ SetQueue(r.q)
          /\ history' = Record("Dequeue", r.ret, r.message,
                               IF r.ret THEN r.message.sequence ELSE -1)
    /\ UNCHANGED <<ovars, lastRegister, now, ticks, pc, loc, cpc, cloc, started, hvars>>

\* system_time() advances between calls
Tick ==
    /\ ticks < MaxTicks
    /\ now' = now + TickUs
    /\ ticks' = ticks + 1
    /\ UNCHANGED <<ovars, lastRegister, buffer, write_index, read_index, sequence_counter, stats,
                   history, pc, loc, cpc, cloc, started, hvars>>

NextQueue ==
    \/ \E m \in InputMessages : Enqueue(m)
    \/ Dequeue
    \/ (ticks < MaxQueueTicks /\ Tick)

SpecQueue == Init /\ [][NextQueue]_vars

(***************************************************************************)
(* SpecMP: producer threads and the consumer thread, one atomic operation  *)
(* of Enqueue / Dequeue per step.                                          *)
(***************************************************************************)
Producers == 1 .. NumProducers

\* Enqueue lines 31-32: load write_index, compute next_write
E_Begin(p, message) ==
    /\ pc[p] = "idle"
    /\ started' = [started EXCEPT !.enq = @ + 1]
    /\ loc' = [loc EXCEPT ![p] = [message |-> message,
                                  current_write |-> write_index,
                                  next_write |-> GetNextIndex(write_index),
                                  msg_copy |-> DefaultMIDIMessage]]
    /\ pc' = [pc EXCEPT ![p] = "check"]
    /\ UNCHANGED <<ovars, lastRegister, buffer, write_index, read_index, sequence_counter, stats,
                   now, ticks, history, cpc, cloc, hvars>>

\* a call of Enqueue starts, at most MaxEnqueues of them
E_LoadWrite(p, message) ==
    /\ started.enq < MaxEnqueues
    /\ E_Begin(p, message)

\* an Enqueue that never finds the queue full
E_CheckFullNever(p) ==
    /\ pc[p] = "check"
    /\ pc' = [pc EXCEPT ![p] = "stamp"]
    /\ UNCHANGED <<ovars, lastRegister, buffer, write_index, read_index, sequence_counter, now, ticks,
                   loc, cpc, cloc, started, hvars, stats, history>>

\* Enqueue lines 36-44: load read_index, reject when full
E_CheckFull(p) ==
    /\ pc[p] = "check"
    /\ IF loc[p].next_write = read_index
       THEN /\ stats' = StatsDropped(stats)
            /\ history' = Record("Enqueue", FALSE, loc[p].message, -1)
            /\ pc' = [pc EXCEPT ![p] = "idle"]
       ELSE /\ pc' = [pc EXCEPT ![p] = "stamp"]
            /\ UNCHANGED <<stats, history>>
    /\ UNCHANGED <<ovars, lastRegister, buffer, write_index, read_index, sequence_counter, now, ticks,
                   loc, cpc, cloc, started, hvars>>

\* Enqueue lines 47-55: copy, sequence_counter.fetch_add(1), timestamp
E_Stamp(p) ==
    /\ pc[p] = "stamp"
    /\ loc' = [loc EXCEPT ![p].msg_copy =
                  StampMessage(loc[p].message, sequence_counter, now)]
    /\ sequence_counter' = sequence_counter + 1
    /\ pc' = [pc EXCEPT ![p] = "store"]
    /\ UNCHANGED <<ovars, lastRegister, buffer, write_index, read_index, stats, now, ticks, history,
                   cpc, cloc, started, hvars>>

\* Enqueue line 59: buffer[current_write] = msg_copy
E_Store(p) ==
    /\ pc[p] = "store"
    /\ buffer' = [buffer EXCEPT ![loc[p].current_write] = loc[p].msg_copy]
    /\ pc' = [pc EXCEPT ![p] = "publish"]
    /\ UNCHANGED <<ovars, lastRegister, write_index, read_index, sequence_counter, stats, now, ticks,
                   history, loc, cpc, cloc, started, hvars>>

\* Enqueue line 63: write_index.store(next_write)
E_Publish(p) ==
    /\ pc[p] = "publish"
    /\ write_index' = loc[p].next_write
    /\ pc' = [pc EXCEPT ![p] = "stats"]
    /\ UNCHANGED <<ovars, lastRegister, buffer, read_index, sequence_counter, stats, now, ticks,
                   history, loc, cpc, cloc, started, hvars>>

\* Enqueue lines 66-73: statistics, return true
E_Return(p) ==
    /\ pc[p] = "stats"
    /\ stats' = StatsEnqueued(stats, loc[p].message.source, GetQueueDepth)
    /\ history' = Record("Enqueue", TRUE, loc[p].message, loc[p].msg_copy.sequence)
    /\ pc' = [pc EXCEPT ![p] = "idle"]
    /\ UNCHANGED <<ovars, lastRegister, buffer, write_index, read_index, sequence_counter, now, ticks,
                   loc, cpc, cloc, started, hvars>>

\* Dequeue line 84: load read_index
D_Begin ==
    /\ cpc = "idle"
    /\ started' = [started EXCEPT !.deq = @ + 1]
    /\ cloc' = [cloc EXCEPT !.current_read = read_index]
    /\ cpc' = "check"
    /\ UNCHANGED <<ovars, lastRegister, buffer, write_index, read_index, sequence_counter, stats,
                   now, ticks, history, pc, loc, hvars>>

\* a call of Dequeue starts, at most MaxDequeues of them
D_LoadRead ==
    /\ started.deq < MaxDequeues
    /\ D_Begin

\* Dequeue lines 88-93: load write_index, return false when empty
D_CheckEmpty ==
    /\ cpc = "check"
    /\ IF cloc.current_read = write_index
       THEN /\ history' = Record("Dequeue", FALSE, DefaultMIDIMessage, -1)
            /\ cpc' = "idle"
       ELSE /\ cpc' = "copy"
            /\ UNCHANGED history
    /\ UNCHANGED <<ovars, lastRegister, buffer, write_index, read_index, sequence_counter, stats,
                   now, ticks, pc, loc, cloc, started, hvars>>

\* Dequeue line 96: message = buffer[current_read]
D_Copy ==
    /\ cpc = "copy"
    /\ cloc' = [cloc EXCEPT !.message = buffer[cloc.current_read]]
    /\ cpc' = "advance"
    /\ UNCHANGED <<ovars, lastRegister, buffer, write_index, read_index, sequence_counter, stats,
                   now, ticks, history, pc, loc, started, hvars>>

\* Dequeue lines 100-101: read_index.store(next_read)
D_Advance ==
    /\ cpc = "advance"
    /\ read_index' = GetNextIndex(cloc.current_read)
    /\ cpc' = "stats"
    /\ UNCHANGED <<ovars, lastRegister, buffer, write_index, sequence_counter, stats, now, ticks,
                   history, pc, loc, cloc, started, hvars>>

\* Dequeue lines 104-109: statistics, return true
D_Return ==
    /\ cpc = "stats"
    /\ stats' = StatsDequeued(stats, cloc.message.timestamp, now)
    /\ history' = Record("Dequeue", TRUE, cloc.message, cloc.message.sequence)
    /\ cpc' = "idle"
    /\ UNCHANGED <<ovars, lastRegister, buffer, write_index, read_index, sequence_counter, now, ticks,
                   pc, loc, cloc, started, hvars>>

NextMP ==
    \/ \E p \in Producers, m \in InputMessages : E_LoadWrite(p, m)
    \/ \E p \in Producers : E_CheckFull(p)
    \/ \E p \in Producers : E_Stamp(p)
    \/ \E p \in Producers : E_Store(p)
    \/ \E p \in Producers : E_Publish(p)
    \/ \E p \in Producers : E_Return(p)
    \/ D_LoadRead
    \/ D_CheckEmpty
    \/ D_Copy
    \/ D_Advance
    \/ D_Return

SpecMP == Init /\ [][NextMP]_vars

(***************************************************************************)
(* Views of the history of completed calls.                                *)
(***************************************************************************)
IsAccepted(h) == h.op = "Enqueue" /\ h.ret
IsDelivered(h) == h.op = "Dequeue" /\ h.ret
Accepted == SelectSeq(history, IsAccepted)
Delivered == SelectSeq(history, IsDelivered)
AcceptedBefore(k) == Len(SelectSeq(SubSeq(history, 1, k - 1), IsAccepted))
DeliveredBefore(k) == Len(SelectSeq(SubSeq(history, 1, k - 1), IsDelivered))

\* the fields the caller of Enqueue sets survive in the dequeued message
SameCallerFields(in, out) ==
    /\ out.status = in.status
    /\ out.data1 = in.data1
    /\ out.data2 = in.data2
    /\ out.source = in.source
    /\ out.priority = in.priority
    /\ (in.timestamp # 0 => out.timestamp = in.timestamp)

\* the first k calls of the history are Enqueue calls
EnqueuePrefix(k) == \A i \in 1 .. k : history[i].op = "Enqueue"
\* the calls k+1 .. Len(history) are Dequeue calls
DequeueSuffix(k) == \A i \in k + 1 .. Len(history) : history[i].op = "Dequeue"

(***************************************************************************)
(* C1.  One thread: the events handed out by Dequeue are the events        *)
(* accepted by Enqueue, in the same order and with every caller-set field  *)
(* (status, data1, data2, source, priority, non-zero timestamp) unchanged; *)
(* a Dequeue succeeds exactly while an accepted event is still pending, so *)
(* N dequeues after N enqueues all succeed, the next one returns false,    *)
(* and once all accepted events are delivered IsEmpty() is true.           *)
(***************************************************************************)
C1_RoundTripFifo ==
    /\ Len(Delivered) <= Len(Accepted)
    /\ \A i \in 1 .. Len(Delivered) :
          SameCallerFields(Accepted[i].msg, Delivered[i].msg)
    /\ \A k \in 1 .. Len(history) :
          history[k].op = "Dequeue" =>
             (history[k].ret <=> AcceptedBefore(k) > DeliveredBefore(k))
    /\ (Len(Delivered) = Len(Accepted) => IsEmpty)

\* N = capacity - 1 events were enqueued, all were dequeued, a further
\* Dequeue has returned false; one of the events carried its own timestamp
C1_Witness ==
    /\ Len(Accepted) = MIDI_QUEUE_SIZE - 1
    /\ Len(Delivered) = MIDI_QUEUE_SIZE - 1
    /\ EnqueuePrefix(MIDI_QUEUE_SIZE - 1)
    /\ \E i \in 1 .. Len(Accepted) : Accepted[i].msg.timestamp # 0
    /\ \E i \in 1 .. Len(Accepted) : Accepted[i].msg.timestamp = 0
    /\ Len(history) > 0
    /\ history[Len(history)].op = "Dequeue"
    /\ ~history[Len(history)].ret
    /\ IsEmpty

C4_UsableCapacity ==
    /\ \A k \in 1 .. Len(history) :
          (k <= MIDI_QUEUE_SIZE /\ EnqueuePrefix(k)) =>
             (history[k].ret <=> k <= MIDI_QUEUE_SIZE - 1)
    /\ (Len(history) >= MIDI_QUEUE_SIZE /\ EnqueuePrefix(MIDI_QUEUE_SIZE)
          /\ DequeueSuffix(MIDI_QUEUE_SIZE))
       => /\ stats.messages_dropped = 1
          /\ \A j \in 1 .. Len(history) - MIDI_QUEUE_SIZE :
                history[MIDI_QUEUE_SIZE + j].ret <=> j <= MIDI_QUEUE_SIZE - 1
          /\ (Len(history) >= 2 * MIDI_QUEUE_SIZE - 1 => GetQueueDepth = 0)

\* MIDI_QUEUE_SIZE enqueues, then a drain that ended with Dequeue returning false
C4_Witness ==
    /\ Len(history) = 2 * MIDI_QUEUE_SIZE
    /\ EnqueuePrefix(MIDI_QUEUE_SIZE)
    /\ DequeueSuffix(MIDI_QUEUE_SIZE)
    /\ ~history[Len(history)].ret
    /\ Len(Delivered) = MIDI_QUEUE_SIZE - 1
    /\ stats.messages_dropped = 1
    /\ GetQueueDepth = 0

(***************************************************************************)
(* C3.  Several producers, one consumer: no Dequeue hands out an event     *)
(* twice, and once every call has returned and the consumer finds the      *)
(* queue empty, every event whose Enqueue returned true has been handed    *)
(* out by exactly one Dequeue.                                             *)
(***************************************************************************)
Quiescent ==
    /\ \A p \in Producers : pc[p] = "idle"
    /\ cpc = "idle"
    /\ read_index = write_index

DeliveriesOf(a) ==
    { i \in 1 .. Len(Delivered) :
         /\ Delivered[i].seq = a.seq
         /\ SameCallerFields(a.msg, Delivered[i].msg) }

C3_MultiProducerSafe ==
    /\ \A i \in 1 .. Len(Accepted) : Cardinality(DeliveriesOf(Accepted[i])) <= 1
    /\ Quiescent =>
          \A i \in 1 .. Len(Accepted) : Cardinality(DeliveriesOf(Accepted[i])) = 1

(***************************************************************************)
(* C5.  Every accepted event carries a fresh sequence number: the numbers  *)
(* of accepted events are pairwise distinct, and the events come out of    *)
(* Dequeue with strictly increasing sequence numbers.                      *)
(***************************************************************************)
C5_SequenceStrictlyIncreasing ==
    /\ \A i, j \in 1 .. Len(Accepted) : i # j => Accepted[i].seq # Accepted[j].seq
    /\ \A i, j \in 1 .. Len(Delivered) : i < j => Delivered[i].seq < Delivered[j].seq

(***************************************************************************)
(* SpecDispatch: MIDIEventHandler on top of the queue, called by one       *)
(* thread.  A handler call runs within one reading of the clock: the       *)
(* system_time() calls of one ProcessMessage all return `now`, so the      *)
(* measured processing time is 0.  A callback is modelled by what the      *)
(* dispatcher can observe of it: it returns or it throws.                  *)
(***************************************************************************)
\* Arguments of SubmitEvent(status, data1, data2, source)
SubmitInputs ==
    { <<144, 6, 20, MIDI_SOURCE_GUI>> }             \* note-on, soft, from the GUI

\* Messages handed to SubmitEvent(const MIDIMessage&): a note-off the caller
\* marked high priority
SubmitMessages ==
    { Msg(128, 5, 0, MIDI_SOURCE_SIMULATION, MIDI_PRIORITY_HIGH, 95000) }

\* SysEx payloads handed to SubmitSysEx
SysExPayloads == { <<240, 71, 127, 247>> }

\* SetMessageQueue with a queue
SetMessageQueue ==
    /\ ~message_queue
    /\ message_queue' = TRUE
    /\ UNCHANGED <<ovars, lastRegister, buffer, write_index, read_index, sequence_counter, stats, now,
                   ticks, history, pc, loc, cpc, cloc, started, callbacks,
                   next_callback_id, global_filter, prevent_feedback,
                   last_gui_message_time, priority_map, metrics, guiLog>>
    /\ lastDrain' = NoDrain

\* what the Submit* calls share: Enqueue on the attached queue
SubmitToQueue(msg) ==
    /\ message_queue
    /\ SetQueue(EnqueueOn(Queue, msg, now).q)
    /\ lastDrain' = NoDrain
    /\ UNCHANGED <<ovars, lastRegister, now, ticks, history, pc, loc, cpc, cloc, started, message_queue,
                   callbacks, next_callback_id, global_filter, prevent_feedback,
                   last_gui_message_time, priority_map, metrics, guiLog>>

\* the message SubmitEvent(status, data1, data2, source) builds
SubmitEventMessage(status, data1, data2, source) ==
    [DefaultMIDIMessage EXCEPT
        !.status = status, !.data1 = data1, !.data2 = data2, !.source = source,
        !.timestamp = now,
        !.priority = GetEventPriority(HighNibble(status))]

\* MIDIEventHandler::SubmitEvent(status, data1, data2, source)
SubmitEvent(status, data1, data2, source) ==
    SubmitToQueue(SubmitEventMessage(status, data1, data2, source))

\* MIDIEventHandler::SubmitEvent(const MIDIMessage&)
SubmitMessage(message) == SubmitToQueue(message)

\* MIDIEventHandler::SubmitSysEx(data, length, source)
SubmitSysEx(data, source) ==
    /\ Len(data) > 0
    /\ SubmitToQueue(
          [DefaultMIDIMessage EXCEPT
              !.status = 240,
              !.data1 = IF Len(data) > 1 THEN data[2] ELSE 0,
              !.data2 = IF Len(data) > 2 THEN data[3] ELSE 0,
              !.source = source,
              !.timestamp = now,
              !.priority = MIDI_PRIORITY_LOW,
              !.sysex_length = Len(data)])

\* Callbacks handed to RegisterCallback: the filter registered with each and
\* whether the callback throws when invoked
CallbackKinds ==
    { [filter |-> DefaultFilter, throws |-> TRUE],
      [filter |-> LoudHardwareFilter, throws |-> FALSE] }

\* a cap test that lets one registration too many in
RegistryFullOffByOne(registry) == Len(registry) > MAX_CALLBACKS

\* callbacks.size() >= MAX_CALLBACKS
RegistryFull(registry) == Len(registry) >= MAX_CALLBACKS

\* MIDIEventHandler::RegisterCallback; `throws` is the behaviour of the callback
RegisterCallback(filter, throws) ==
    /\ IF RegistryFull(callbacks)
       THEN /\ lastRegister' = 0
            /\ UNCHANGED <<callbacks, next_callback_id>>
       ELSE /\ callbacks' = Append(callbacks,
                               [id |-> next_callback_id, filter |-> filter,
                                enabled |-> TRUE, throws |-> throws])
            /\ next_callback_id' = next_callback_id + 1
            /\ lastRegister' = next_callback_id
    /\ UNCHANGED <<ovars, buffer, write_index, read_index, sequence_counter, stats, now,
                   ticks, history, pc, loc, cpc, cloc, started, message_queue,
                   global_filter, prevent_feedback, last_gui_message_time,
                   priority_map, metrics, guiLog>>
    /\ lastDrain' = NoDrain

HasId(entry, id) == entry.id = id

\* MIDIEventHandler::UnregisterCallback
UnregisterCallback(id) ==
    /\ \E i \in 1 .. Len(callbacks) : callbacks[i].id = id
    /\ callbacks' = SelectSeq(callbacks, LAMBDA entry : ~HasId(entry, id))
    /\ UNCHANGED <<ovars, lastRegister, buffer, write_index, read_index, sequence_counter, stats, now,
                   ticks, history, pc, loc, cpc, cloc, started, message_queue,
                   next_callback_id, global_filter, prevent_feedback,
                   last_gui_message_time, priority_map, metrics, guiLog>>
    /\ lastDrain' = NoDrain

\* MIDIEventHandler::SetCallbackEnabled
SetCallbackEnabled(id, enabled) ==
    /\ \E i \in 1 .. Len(callbacks) : callbacks[i].id = id
    /\ callbacks' = [i \in 1 .. Len(callbacks) |->
                       IF callbacks[i].id = id
                       THEN [callbacks[i] EXCEPT !.enabled = enabled]
                       ELSE callbacks[i]]
    /\ UNCHANGED <<ovars, lastRegister, buffer, write_index, read_index, sequence_counter, stats, now,
                   ticks, history, pc, loc, cpc, cloc, started, message_queue,
                   next_callback_id, global_filter, prevent_feedback,
                   last_gui_message_time, priority_map, metrics, guiLog>>
    /\ lastDrain' = NoDrain

\* MIDIEventHandler::SetGlobalFilter
SetGlobalFilter(filter) ==
    /\ global_filter' = filter
    /\ UNCHANGED <<ovars, lastRegister, buffer, write_index, read_index, sequence_counter, stats, now,
                   ticks, history, pc, loc, cpc, cloc, started, message_queue,
                   callbacks, next_callback_id, prevent_feedback,
                   last_gui_message_time, priority_map, metrics, guiLog>>
    /\ lastDrain' = NoDrain

\* MIDIEventHandler::SetFeedbackPrevention
SetFeedbackPrevention(enabled) ==
    /\ prevent_feedback' = enabled
    /\ UNCHANGED <<ovars, lastRegister, buffer, write_index, read_index, sequence_counter, stats, now,
                   ticks, history, pc, loc, cpc, cloc, started, message_queue,
                   callbacks, next_callback_id, global_filter,
                   last_gui_message_time, priority_map, metrics, guiLog>>
    /\ lastDrain' = NoDrain

\* system_time() / 1000, as stored in a uint32_t
Milliseconds(t) == t \div 1000

\* current_time - last_time < window on uint32_t: a negative difference wraps
\* to a value far above the window
WithinWindow(current_time, last_time) ==
    LET diff == current_time - last_time
    IN diff >= 0 /\ diff < FEEDBACK_PREVENTION_WINDOW_MS

ShouldProcessNoFeedbackCheck(message, filter, prevent, last_gui, t) ==
    ShouldAccept(filter, message)

\* a feedback policy that does not look at the origin of the event
ShouldProcessAnyOrigin(message, filter, prevent, last_gui, t) ==
    IF ~ShouldAccept(filter, message)
    THEN FALSE
    ELSE IF prevent /\ WithinWindow(Milliseconds(t), last_gui)
         THEN FALSE
         ELSE TRUE

\* MIDIEventHandler::ShouldProcessMessage
ShouldProcessMessage(message, filter, prevent, last_gui, t) ==
    IF ~ShouldAccept(filter, message)
    THEN FALSE
    ELSE IF prevent /\ message.source = MIDI_SOURCE_GUI
              /\ WithinWindow(Milliseconds(t), last_gui)
         THEN FALSE
         ELSE TRUE

FirstThrowAt(entries) ==
    IF \E i \in 1 .. Len(entries) : entries[i].throws
    THEN CHOOSE i \in 1 .. Len(entries) :
            entries[i].throws /\ \A j \in 1 .. i - 1 : ~entries[j].throws
    ELSE Len(entries)

\* a dispatch loop without the try/catch: the first exception ends it
InvokedUntilThrow(registry, message) ==
    LET entries == SelectSeq(registry,
                      LAMBDA entry : entry.enabled /\ ShouldAccept(entry.filter, message))
    IN SubSeq(entries, 1, FirstThrowAt(entries))

\* a dispatch loop that does not look at the enabled flag
InvokedIncludingDisabled(registry, message) ==
    SelectSeq(registry, LAMBDA entry : ShouldAccept(entry.filter, message))

\* the registrations ExecuteCallbacks invokes for a message, in registry order
Invoked(registry, message) ==
    SelectSeq(registry,
              LAMBDA entry : entry.enabled /\ ShouldAccept(entry.filter, message))

\* MIDIEventHandler::UpdateMetrics on the metrics record
UpdateMetrics(m, processing_time) ==
    [m EXCEPT !.max_processing_time_us =
                  IF processing_time > @ THEN processing_time ELSE @,
              !.avg_processing_time_us = (@ * 7 + processing_time) \div 8]

\* a handler that restarts the window on every GUI-origin event it sees
LastGuiOnEveryGuiEvent(message, pass, last_gui, t) ==
    IF message.source = MIDI_SOURCE_GUI THEN Milliseconds(t) ELSE last_gui

\* last_gui_message_time after ProcessMessage: UpdateMetrics stores the time
\* of a GUI-origin message, and is not reached when the message is filtered
LastGuiMessageTime(message, pass, last_gui, t) ==
    IF pass /\ message.source = MIDI_SOURCE_GUI THEN Milliseconds(t) ELSE last_gui

\* MIDIEventHandler::ProcessMessage (with ExecuteCallbacks and UpdateMetrics) on
\*   acc = [metrics, last_gui, drained, calls, guiLog]
\* `ev` is the position of the message in the batch.
ProcessMessage(acc, message, ev, t) ==
    LET pass == ShouldProcessMessage(message, global_filter, prevent_feedback,
                                     acc.last_gui, t)
        invoked == Invoked(callbacks, message)
        newCalls == [i \in 1 .. Len(invoked) |->
                        [id |-> invoked[i].id, ev |-> ev, threw |-> invoked[i].throws]]
        returned == SelectSeq(invoked, LAMBDA entry : ~entry.throws)
        logged == IF message.source = MIDI_SOURCE_GUI /\ Len(acc.guiLog) < MaxGuiEvents
                  THEN Append(acc.guiLog, [at |-> Milliseconds(t),
                                           prevent |-> prevent_feedback,
                                           dispatched |-> pass])
                  ELSE acc.guiLog
        entry == [msg |-> message, dispatched |-> pass, at |-> Milliseconds(t)]
    IN IF ~pass
       THEN [acc EXCEPT !.metrics.events_filtered = @ + 1,
                        !.last_gui = LastGuiMessageTime(message, pass, @, t),
                        !.drained = Append(@, entry),
                        !.guiLog = logged]
       ELSE [metrics |->
                [UpdateMetrics(acc.metrics, 0) EXCEPT
                    !.callbacks_executed = @ + Len(returned),
                    !.events_processed = @ + 1],
             last_gui |-> LastGuiMessageTime(message, pass, acc.last_gui, t),
             drained |-> Append(acc.drained, entry),
             calls |-> acc.calls \o newCalls,
             guiLog |-> logged]

RECURSIVE ProcessBatch(_, _, _, _)
\* ProcessMessage applied to the messages of a batch in order
ProcessBatch(acc, batch, ev, t) ==
    IF batch = <<>>
    THEN acc
    ELSE ProcessBatch(ProcessMessage(acc, Head(batch), ev, t), Tail(batch), ev + 1, t)

RECURSIVE DrainFifo(_, _, _)
\* the loop of ProcessPendingEvents: up to max_batch successful Dequeue calls
DrainFifo(q, processed, t) ==
    IF processed < max_batch
    THEN LET r == DequeueOn(q, t)
         IN IF r.ret
            THEN LET rest == DrainFifo(r.q, processed + 1, t)
                 IN [q |-> rest.q, batch |-> <<r.message>> \o rest.batch]
            ELSE [q |-> r.q, batch |-> <<>>]
    ELSE [q |-> q, batch |-> <<>>]

WithPriority(batch, p) == SelectSeq(batch, LAMBDA m : m.priority = p)

\* a drain that hands the batch over most urgent priority first
DrainByPriority(q, t) ==
    LET d == DrainFifo(q, 0, t)
    IN [q |-> d.q,
        batch |-> WithPriority(d.batch, 0) \o WithPriority(d.batch, 1)
                  \o WithPriority(d.batch, 2) \o WithPriority(d.batch, 3)
                  \o WithPriority(d.batch, 4)]

RECURSIVE DrainWholeQueue(_, _)
\* a drain without the batch limit: it dequeues until the queue is empty
DrainWholeQueue(q, t) ==
    LET r == DequeueOn(q, t)
    IN IF r.ret
       THEN LET rest == DrainWholeQueue(r.q, t)
            IN [q |-> rest.q, batch |-> <<r.message>> \o rest.batch]
       ELSE [q |-> r.q, batch |-> <<>>]

\* the messages one ProcessPendingEvents call dequeues, in the order it
\* processes them, and the queue it leaves
DrainBatch(q, t) == DrainFifo(q, 0, t)

\* MIDIEventHandler::ProcessPendingEvents, whichever thread calls it
ProcessPendingEventsBody ==
    /\ message_queue
    /\ \E d \in {DrainBatch(Queue, now)} :
       \E res \in {ProcessBatch([metrics |-> metrics,
                                  last_gui |-> last_gui_message_time,
                                  drained |-> <<>>, calls |-> <<>>,
                                  guiLog |-> guiLog],
                                 d.batch, 1, now)} :
          /\ SetQueue(d.q)
          /\ metrics' = [res.metrics EXCEPT !.current_queue_depth =
                            QueueDepth(d.q.write_index, d.q.read_index)]
          /\ last_gui_message_time' = res.last_gui
          /\ guiLog' = res.guiLog
          /\ lastDrain' = [active |-> TRUE,
                           last_gui_before |-> last_gui_message_time,
                           drained |-> res.drained, calls |-> res.calls]
    /\ UNCHANGED <<lastRegister, now, ticks, history, pc, loc, cpc, cloc, started, message_queue,
                   callbacks, next_callback_id, global_filter, prevent_feedback,
                   priority_map>>

\* ProcessPendingEvents called by the thread that owns the handler
ProcessPendingEvents ==
    /\ ProcessPendingEventsBody
    /\ UNCHANGED ovars

\* Submit* calls made so far, accepted or rejected by the queue
Submitted == sequence_counter + stats.messages_dropped

NextDispatch ==
    \/ SetMessageQueue
    \/ /\ Submitted < MaxSubmits
       /\ \/ \E a \in SubmitInputs : SubmitEvent(a[1], a[2], a[3], a[4])
          \/ \E m \in SubmitMessages : SubmitMessage(m)
          \/ \E d \in SysExPayloads : SubmitSysEx(d, MIDI_SOURCE_HARDWARE_USB)
    \/ /\ next_callback_id <= MaxRegistrations
       /\ \E k \in CallbackKinds : RegisterCallback(k.filter, k.throws)
    \/ \E id \in 1 .. MaxRegistrations : UnregisterCallback(id)
    \/ \E id \in 1 .. MaxRegistrations, on \in BOOLEAN : SetCallbackEnabled(id, on)
    \/ \E f \in GlobalFilters : SetGlobalFilter(f)
    \/ ProcessPendingEvents

\* The dispatcher on one thread: events are submitted, the registry and the
\* global filter change, and ProcessPendingEvents drains.
SpecDispatch == Init /\ [][NextDispatch]_vars

NextFeedback ==
    \/ SetMessageQueue
    \/ /\ Submitted < MaxGuiEvents
       /\ \E a \in SubmitInputs : SubmitEvent(a[1], a[2], a[3], a[4])
    \/ \E on \in BOOLEAN : SetFeedbackPrevention(on)
    \/ ProcessPendingEvents
    \/ Tick

\* GUI-origin events submitted and drained while the clock advances.
SpecFeedback == Init /\ [][NextFeedback]_vars

\* Arguments of SubmitEvent, one per status class
PriorityInputs ==
    { <<144, 6, 100, MIDI_SOURCE_HARDWARE_USB>>,    \* note-on
      <<128, 6, 0, MIDI_SOURCE_HARDWARE_USB>>,      \* note-off
      <<176, 48, 64, MIDI_SOURCE_HARDWARE_USB>>,    \* control change
      <<240, 0, 0, MIDI_SOURCE_HARDWARE_USB>>,      \* system exclusive
      <<248, 0, 0, MIDI_SOURCE_HARDWARE_USB>> }     \* real-time clock

NextSubmit ==
    \/ SetMessageQueue
    \/ /\ Submitted < MaxSubmits
       /\ \E a \in PriorityInputs : SubmitEvent(a[1], a[2], a[3], a[4])
    \/ ProcessPendingEvents

\* Events of every status class submitted with SubmitEvent(status, ...).
SpecSubmit == Init /\ [][NextSubmit]_vars

(***************************************************************************)
(* Views of the last completed ProcessPendingEvents call.                  *)
(***************************************************************************)
\* positions in calls of the invocations of registration id for event ev
CallsOf(d, id, ev) ==
    {k \in 1 .. Len(d.calls) : d.calls[k].id = id /\ d.calls[k].ev = ev}

\* GUI-origin events of the batch dispatched before event i
GuiDispatchedBefore(d, i) ==
    {j \in 1 .. i - 1 : d.drained[j].dispatched
                        /\ d.drained[j].msg.source = MIDI_SOURCE_GUI}

\* the time of the last dispatched GUI-origin event when event i is examined
LastGuiBefore(d, i) ==
    IF GuiDispatchedBefore(d, i) = {}
    THEN d.last_gui_before
    ELSE d.drained[CHOOSE j \in GuiDispatchedBefore(d, i) :
                      \A k \in GuiDispatchedBefore(d, i) : k <= j].at

\* the feedback-loop policy lets event i through
FeedbackPolicyPasses(d, i) ==
    ~(/\ prevent_feedback
      /\ d.drained[i].msg.source = MIDI_SOURCE_GUI
      /\ d.drained[i].at - LastGuiBefore(d, i) >= 0
      /\ d.drained[i].at - LastGuiBefore(d, i) < FEEDBACK_PREVENTION_WINDOW_MS)

\* C6: every event drained by ProcessPendingEvents is dispatched exactly when
\* the global filter accepts it and the feedback-loop policy lets it through;
\* a dispatched event invokes exactly once each registration that is enabled
\* and whose filter accepts it, and no other; an event that is not dispatched
\* invokes no callback.
C6_DispatchPerEvent ==
    lastDrain.active =>
        \A i \in 1 .. Len(lastDrain.drained) :
            LET e == lastDrain.drained[i]
                pass == /\ ShouldAccept(global_filter, e.msg)
                        /\ FeedbackPolicyPasses(lastDrain, i)
            IN /\ e.dispatched <=> pass
               /\ \A r \in 1 .. Len(callbacks) :
                     Cardinality(CallsOf(lastDrain, callbacks[r].id, i)) =
                        IF /\ pass
                           /\ callbacks[r].enabled
                           /\ ShouldAccept(callbacks[r].filter, e.msg)
                        THEN 1 ELSE 0
               /\ \A k \in 1 .. Len(lastDrain.calls) :
                     \E r \in 1 .. Len(callbacks) :
                        callbacks[r].id = lastDrain.calls[k].id

\* a drain in which one event was dispatched to an enabled registration while
\* another registration was skipped, and another event was rejected
C6_Witness ==
    /\ lastDrain.active
    /\ \E i, j \in 1 .. Len(lastDrain.drained) :
          /\ lastDrain.drained[i].dispatched
          /\ ~lastDrain.drained[j].dispatched
          /\ \E r, q \in 1 .. Len(callbacks) :
                /\ CallsOf(lastDrain, callbacks[r].id, i) # {}
                /\ ~callbacks[q].enabled
                /\ ShouldAccept(callbacks[q].filter, lastDrain.drained[i].msg)
                /\ CallsOf(lastDrain, callbacks[q].id, i) = {}

\* the smaller of two numbers
Min(a, b) == IF a < b THEN a ELSE b

\* C7: in a ProcessPendingEvents call in which a callback throws, every
\* enabled, accepting registration after it in the registry is still invoked
\* for that event, the rest of the batch is still drained, the registry is
\* unchanged, write_index is unchanged and read_index has advanced by exactly
\* the number of events drained.
C7_ThrowIsContained ==
    [][lastDrain'.active =>
          LET d == lastDrain'
          IN /\ callbacks' = callbacks
             /\ write_index' = write_index
             /\ Len(d.drained) = Min(max_batch, GetQueueDepth)
             /\ read_index' = (read_index + Len(d.drained)) % MIDI_QUEUE_SIZE
             /\ \A k \in 1 .. Len(d.calls) :
                   d.calls[k].threw =>
                      \A r, q \in 1 .. Len(callbacks) :
                         (/\ r < q
                          /\ callbacks[r].id = d.calls[k].id
                          /\ callbacks[q].enabled
                          /\ ShouldAccept(callbacks[q].filter,
                                          d.drained[d.calls[k].ev].msg))
                         => CallsOf(d, callbacks[q].id, d.calls[k].ev) # {}
    ]_vars

\* a drain in which a callback threw, a later registration was invoked for
\* the same event and a later event of the batch was dispatched too
C7_Witness ==
    /\ lastDrain.active
    /\ \E k, l, m \in 1 .. Len(lastDrain.calls) :
          /\ k < l /\ l < m
          /\ lastDrain.calls[k].threw
          /\ lastDrain.calls[l].ev = lastDrain.calls[k].ev
          /\ lastDrain.calls[l].id # lastDrain.calls[k].id
          /\ lastDrain.calls[m].ev > lastDrain.calls[k].ev

\* C8: with feedback prevention on, when the only GUI-origin events are
\* processed at t, t + 20 ms and t + 60 ms, the first and the third are
\* dispatched and the second is not.
C8_FeedbackWindow ==
    (/\ Len(guiLog) = 3
     /\ \A i \in 1 .. 3 : guiLog[i].prevent
     /\ guiLog[2].at = guiLog[1].at + 20
     /\ guiLog[3].at = guiLog[1].at + 60)
    => (guiLog[1].dispatched /\ ~guiLog[2].dispatched /\ guiLog[3].dispatched)

\* three GUI-origin events were processed at t, t + 20 ms and t + 60 ms
C8_Witness ==
    /\ Len(guiLog) = 3
    /\ \A i \in 1 .. 3 : guiLog[i].prevent
    /\ guiLog[2].at = guiLog[1].at + 20
    /\ guiLog[3].at = guiLog[1].at + 60
    /\ guiLog[3].dispatched

C10_SubmitEventClassPriority ==
    [][\A a \in PriorityInputs :
          (SubmitEvent(a[1], a[2], a[3], a[4]) /\ write_index' # write_index)
          => buffer'[write_index].priority = GetDefaultPriority(a[1])
    ]_vars

(***************************************************************************)
(* The callback registry on its own.                                       *)
(***************************************************************************)
NextRegistry ==
    \/ /\ next_callback_id <= MaxIds
       /\ \E k \in CallbackKinds : RegisterCallback(k.filter, k.throws)
    \/ \E id \in 1 .. MaxIds : UnregisterCallback(id)
    \/ \E id \in 1 .. MaxIds, on \in BOOLEAN : SetCallbackEnabled(id, on)

\* Registrations are added, removed, enabled and disabled.
SpecRegistry == Init /\ [][NextRegistry]_vars

\* C11: the registry never holds more than MAX_CALLBACKS registrations; a
\* RegisterCallback call made while MAX_CALLBACKS are registered returns 0 and
\* leaves the registry and the id counter as they were; any other
\* RegisterCallback call appends one registration and returns its id, which is
\* not 0.
C11_RegistryCap ==
    [][/\ Len(callbacks') <= MAX_CALLBACKS
       /\ \A k \in CallbackKinds :
             RegisterCallback(k.filter, k.throws) =>
                IF Len(callbacks) = MAX_CALLBACKS
                THEN /\ lastRegister' = 0
                     /\ callbacks' = callbacks
                     /\ next_callback_id' = next_callback_id
                ELSE /\ lastRegister' # 0
                     /\ Len(callbacks') = Len(callbacks) + 1
                     /\ SubSeq(callbacks', 1, Len(callbacks)) = callbacks
                     /\ callbacks'[Len(callbacks')].id = lastRegister'
                     /\ \A r \in 1 .. Len(callbacks) :
                           callbacks[r].id # lastRegister'
    ]_vars

\* RegisterCallback was refused on a full registry after an earlier
\* registration had been removed and replaced
C11_Witness ==
    /\ lastRegister = 0
    /\ Len(callbacks) = MAX_CALLBACKS
    /\ next_callback_id > MAX_CALLBACKS + 1

(***************************************************************************)
(* Batches: more events are buffered than one drain takes.                 *)
(***************************************************************************)
NextBatch ==
    \/ SetMessageQueue
    \/ /\ Submitted < MaxBatchSubmits
       /\ \/ \E a \in SubmitInputs : SubmitEvent(a[1], a[2], a[3], a[4])
          \/ \E m \in SubmitMessages : SubmitMessage(m)
          \/ \E d \in SysExPayloads : SubmitSysEx(d, MIDI_SOURCE_HARDWARE_USB)
    \/ ProcessPendingEvents

\* Events pile up in the queue between ProcessPendingEvents calls.
SpecBatch == Init /\ [][NextBatch]_vars

\* the i-th pending message (i = 1 is the oldest) of a queue given by its
\* buffer and its read index
Pending(buf, r, i) == buf[(r + i - 1) % MIDI_QUEUE_SIZE]

\* C12: one ProcessPendingEvents call dequeues min(max_batch, depth) events,
\* the oldest ones in order, and the events beyond max_batch stay in the queue
\* in their original order.
C12_BatchLimit ==
    [][lastDrain'.active =>
          LET depth == QueueDepth(write_index, read_index)
              n == Len(lastDrain'.drained)
          IN /\ n = Min(max_batch, depth)
             /\ n <= max_batch
             /\ \A i \in 1 .. n :
                   lastDrain'.drained[i].msg = Pending(buffer, read_index, i)
             /\ QueueDepth(write_index', read_index') = depth - n
             /\ \A i \in 1 .. depth - n :
                   Pending(buffer', read_index', i) = Pending(buffer, read_index, n + i)
    ]_vars

\* a drain took max_batch events and left a different kind of event behind
C12_Witness ==
    /\ lastDrain.active
    /\ Len(lastDrain.drained) = max_batch
    /\ GetQueueDepth > 0
    /\ Pending(buffer, read_index, 1).status # lastDrain.drained[max_batch].msg.status

(***************************************************************************)
(* MIDIEventLooper: one thread calls StartProcessing / StopProcessing, the *)
(* processing threads run ProcessingLoop.                                  *)
(***************************************************************************)
\* the queue and the handler
qhvars == <<buffer, write_index, read_index, sequence_counter, stats, now, ticks,
            history, pc, loc, cpc, cloc, started, hvars>>

\* processing threads that were spawned and have not exited
LiveWorkers == {w \in 1 .. MaxWorkers : worker[w] \notin {"unborn", "exited"}}

\* the thread spawn_thread creates next
NextWorker == CHOOSE w \in 1 .. MaxWorkers :
                 worker[w] = "unborn" /\ \A v \in 1 .. w - 1 : worker[v] # "unborn"

\* MIDIEventLooper::StartProcessing, whichever thread calls it; spawn_ok:
\* spawn_thread returns a thread
StartProcessingCall(spawn_ok) ==
    /\ spawn_ok => \E w \in 1 .. MaxWorkers : worker[w] = "unborn"
    /\ IF looper.is_processing
       THEN /\ lnoops' = lnoops \cup {"start"}
            /\ UNCHANGED <<looper, worker>>
       ELSE /\ IF spawn_ok
               THEN /\ looper' = [looper EXCEPT !.is_processing = TRUE,
                                                 !.should_quit = FALSE,
                                                 !.processing_thread = NextWorker]
                    /\ worker' = [worker EXCEPT ![NextWorker] = "check"]
               ELSE /\ looper' = [looper EXCEPT !.is_processing = FALSE,
                                                 !.should_quit = FALSE,
                                                 !.processing_thread = -1]
                    /\ UNCHANGED worker
            /\ UNCHANGED lnoops
    /\ UNCHANGED <<lpc, qhvars, uvars>>

\* StartProcessing called by the thread that also calls StopProcessing
StartProcessing(spawn_ok) ==
    /\ lpc = "idle"
    /\ StartProcessingCall(spawn_ok)

\* MIDIEventLooper::StopProcessing up to wait_for_thread
StopProcessing ==
    /\ lpc = "idle"
    /\ IF ~looper.is_processing
       THEN /\ lnoops' = lnoops \cup {"stop"}
            /\ UNCHANGED <<looper, lpc>>
       ELSE /\ looper' = [looper EXCEPT !.should_quit = TRUE, !.is_processing = FALSE,
                                        !.joining = looper.processing_thread]
            /\ lpc' = IF looper.processing_thread >= 0 THEN "wait" ELSE "idle"
            /\ UNCHANGED lnoops
    /\ UNCHANGED <<worker, qhvars, uvars>>

\* a join that does not wait for the thread
JoinReturnsAtOnce(w) == TRUE

\* wait_for_thread(w) returns: the thread has exited
JoinReturns(w) == worker[w] = "exited"

\* MIDIEventLooper::StopProcessing: wait_for_thread returns, the call ends
StopProcessingJoin ==
    /\ lpc = "wait"
    /\ JoinReturns(looper.joining)
    /\ looper' = [looper EXCEPT !.processing_thread = -1, !.joining = -1]
    /\ lpc' = "idle"
    /\ UNCHANGED <<worker, lnoops, qhvars, uvars>>

\* MIDIEventLooper::ProcessingLoop: the test of while (!should_quit)
W_Check(w) ==
    /\ worker[w] = "check"
    /\ worker' = [worker EXCEPT ![w] = IF looper.should_quit THEN "exited" ELSE "process"]
    /\ UNCHANGED <<looper, lpc, lnoops, qhvars, uvars>>

\* MIDIEventLooper::ProcessingLoop: ProcessPendingEvents, then snooze
W_Process(w) ==
    /\ worker[w] = "process"
    /\ IF message_queue
       THEN ProcessPendingEventsBody
       ELSE UNCHANGED qhvars
    /\ worker' = [worker EXCEPT ![w] = "check"]
    /\ UNCHANGED <<looper, lpc, lnoops, uvars>>

NextLooper ==
    \/ SetMessageQueue
    \/ /\ Submitted < MaxSubmits
       /\ \E a \in SubmitInputs : SubmitEvent(a[1], a[2], a[3], a[4])
    \/ \E spawn_ok \in BOOLEAN : StartProcessing(spawn_ok)
    \/ StopProcessing
    \/ StopProcessingJoin
    \/ \E w \in 1 .. MaxWorkers : W_Check(w)
    \/ \E w \in 1 .. MaxWorkers : W_Process(w)

\* The looper is started and stopped while events are submitted.
SpecLooper == Init /\ [][NextLooper]_vars

\* C13: StartProcessing while processing and StopProcessing while stopped
\* change nothing; there is never more than one processing thread; once
\* StopProcessing has returned no processing thread is alive, so a processing
\* thread calls ProcessPendingEvents only while the looper is processing or
\* StopProcessing is still waiting for it.
C13_StartStopIdempotentAndJoined ==
    [][/\ Cardinality(LiveWorkers') <= 1
       /\ (lpc' = "idle" /\ ~looper'.is_processing) => LiveWorkers' = {}
       /\ \A spawn_ok \in BOOLEAN :
             (StartProcessing(spawn_ok) /\ looper.is_processing)
             => (looper' = looper /\ worker' = worker)
       /\ (StopProcessing /\ ~looper.is_processing)
             => (looper' = looper /\ worker' = worker /\ lpc' = "idle")
       /\ \A w \in 1 .. MaxWorkers :
             W_Process(w) => (looper.is_processing \/ lpc = "wait")
    ]_vars

\* both calls were repeated without effect, a processing thread dispatched an
\* event and exited, StopProcessing returned and a second thread was started
C13_Witness ==
    /\ lnoops = {"start", "stop"}
    /\ metrics.events_processed > 0
    /\ worker[1] = "exited"
    /\ lpc = "idle"
    /\ looper.is_processing
    /\ looper.processing_thread = 2

(***************************************************************************)
(* USBRawMIDI: the reader thread (ReaderThreadLoop), the threads that send *)
(* (SendMIDI, SendSysEx, SetPadColorsBatch with PauseReader/ResumeReader)  *)
(* and the thread that owns the object (Initialize, Shutdown).             *)
(***************************************************************************)
\* everything but the transport
nonusb == <<qhvars, lvars, device_state, iteration, lastSetPriority>>

\* IsConnected() && g_usb_roster && g_usb_roster->found_device
DeviceReady == usb.device_fd >= 0 /\ usb.found_device

\* USBRawMIDI::Initialize; found: the roster detects the device within a
\* second, spawn_ok: spawn_thread returns a thread
Initialize(found, spawn_ok) ==
    /\ usb.device_fd < 0
    /\ ~usb.shutting_down
    /\ IF found
       THEN /\ usb' = [usb EXCEPT !.found_device = TRUE, !.device_fd = 1,
                                  !.reader_thread = IF spawn_ok THEN 1 ELSE -1]
            /\ rpc' = IF spawn_ok THEN "top" ELSE rpc
       ELSE UNCHANGED <<usb, rpc>>
    /\ UNCHANGED <<wth, wire, nonusb>>

\* APCMiniUSBRoster::DeviceRemoved: the device is unplugged
DeviceRemoved ==
    /\ usb.found_device
    /\ usb' = [usb EXCEPT !.found_device = FALSE]
    /\ UNCHANGED <<rpc, wth, wire, nonusb>>

(* ---- ReaderThreadLoop ---- *)
\* the tests at the top of the loop: should_stop, pause_requested, the device
R_Top ==
    /\ rpc = "top"
    /\ rpc' = IF usb.should_stop THEN "exited"
              ELSE IF usb.pause_requested THEN "ack"
              ELSE IF ~usb.found_device THEN "top"
              ELSE "lock"
    /\ UNCHANGED <<usb, wth, wire, nonusb>>

\* is_paused = true; release_sem(pause_sem)
R_Ack ==
    /\ rpc = "ack"
    /\ usb' = [usb EXCEPT !.is_paused = TRUE, !.pause_sem = @ + 1]
    /\ rpc' = "paused"
    /\ UNCHANGED <<wth, wire, nonusb>>

\* a wait loop that only a stop request ends
WaitOverOnStopOnly == usb.should_stop

\* a wait loop that only ResumeReader ends
WaitOverOnResumeOnly == ~usb.pause_requested

\* the wait loop ends: !(pause_requested && !should_stop)
WaitOver == ~(usb.pause_requested /\ ~usb.should_stop)

\* one round of while (pause_requested && !should_stop) snooze(1000)
R_Wait ==
    /\ rpc = "paused"
    /\ IF WaitOver
       THEN /\ usb' = [usb EXCEPT !.is_paused = FALSE]
            /\ rpc' = "top"
       ELSE UNCHANGED <<usb, rpc>>
    /\ UNCHANGED <<wth, wire, nonusb>>

\* a lock that is handed out whoever holds it
LockAvailableAlways == TRUE

\* BLocker::Lock returns with the lock: nobody holds it
LockAvailable == usb.endpoint_lock = LockFree

\* BAutolock on endpoint_lock, then the transfer on endpoint_in starts
R_Lock(lock_ok) ==
    /\ rpc = "lock"
    /\ lock_ok => LockAvailable
    /\ IF lock_ok
       THEN /\ usb' = [usb EXCEPT !.endpoint_lock = ReaderThread]
            /\ rpc' = "xfer"
       ELSE /\ rpc' = "top"
            /\ UNCHANGED usb
    /\ UNCHANGED <<wth, wire, nonusb>>

\* the transfer on endpoint_in returns n (the bytes read, or negative) with
\* packet in the buffer (rx holds the two locals of the loop); the lock is
\* released and the result is handled: delivered is the list of the calls of
\* midi_callback
R_TransferDone(n, packet) ==
    /\ rpc = "xfer"
    /\ LET released == [usb EXCEPT !.endpoint_lock = LockFree,
                                   !.rx = [result |-> n, packet |-> packet]]
       IN usb' = IF n >= 4
                 THEN IF packet.cin # 0
                      THEN [released EXCEPT !.delivered = Append(@, packet.midi),
                                            !.messages_received = @ + 1]
                      ELSE released
                 ELSE IF n < 0
                 THEN [released EXCEPT !.error_count = @ + 1]
                 ELSE released
    /\ rpc' = "top"
    /\ UNCHANGED <<wth, wire, nonusb>>

\* the transfer returns ("packet": a pad press, "none": no bytes, "error":
\* a negative result)
R_TransferEnd(result) ==
    R_TransferDone(CASE result = "packet" -> 4 [] result = "error" -> -1 [] OTHER -> 0,
                   PadPressPacket)

(* ---- Shutdown ---- *)
\* USBRawMIDI::Shutdown up to wait_for_thread, or to its end if there is no
\* reader thread to wait for
Shutdown ==
    /\ usb.device_fd >= 0
    /\ ~usb.shutting_down
    /\ usb' = IF usb.reader_thread >= 0
              THEN [usb EXCEPT !.should_stop = TRUE, !.shutting_down = TRUE]
              ELSE [usb EXCEPT !.should_stop = TRUE, !.found_device = FALSE,
                               !.device_fd = -1]
    /\ UNCHANGED <<rpc, wth, wire, nonusb>>

\* USBRawMIDI::Shutdown: wait_for_thread returns, the roster is deleted
ShutdownJoin ==
    /\ usb.shutting_down
    /\ rpc = "exited"
    /\ usb' = [usb EXCEPT !.reader_thread = -1, !.found_device = FALSE,
                          !.device_fd = -1, !.shutting_down = FALSE]
    /\ UNCHANGED <<rpc, wth, wire, nonusb>>

(* ---- SendMIDI (usb_haiku_midi.cpp) ---- *)
\* the Code Index Number SendMIDI gives a message
CodeIndex(status) ==
    CASE HighNibble(status) = MIDI_NOTE_OFF -> 8
      [] HighNibble(status) = MIDI_NOTE_ON -> 9
      [] HighNibble(status) = MIDI_CONTROL_CHANGE -> 11
      [] OTHER -> 9

\* the thread runs the setup of RunUSBRawLatencyTest (latency_benchmark.cpp)
InLatencyTest(l) == l.op = "RunUSBRawLatencyTest"

\* the locals of a thread when its SendMIDI call returns code
SendReturns(l, code) ==
    [l EXCEPT !.ret = code,
              !.pc = IF l.op = "SetPadColorsBatch" THEN "batch_after_send"
                     ELSE IF InLatencyTest(l) THEN "grid_after_send"
                     ELSE "idle"]

\* a thread calls SendMIDI(status, data1, data2)
CallSendMIDI(w, m) ==
    /\ wth[w].pc = "idle"
    /\ wth' = [wth EXCEPT ![w] = [IdleWriter EXCEPT !.pc = "send_check",
                                                    !.op = "SendMIDI", !.args = m, !.msg = m,
                                                    !.calls = wth[w].calls + 1]]
    /\ UNCHANGED <<usb, rpc, wire, nonusb>>

\* the connection test at the head of SendMIDI
S_Check(w) ==
    /\ wth[w].pc = "send_check"
    /\ wth' = [wth EXCEPT ![w] =
                  IF DeviceReady
                  THEN [@ EXCEPT !.pc = "send_lock"]
                  ELSE SendReturns(@, APC_ERROR_USB_TRANSFER_FAILED)]
    /\ UNCHANGED <<usb, rpc, wire, nonusb>>

\* BAutolock on endpoint_lock, the test of endpoint_out, the transfer starts
S_Lock(w, lock_ok) ==
    /\ wth[w].pc = "send_lock"
    /\ lock_ok => LockAvailable
    /\ IF lock_ok /\ usb.found_device
       THEN /\ usb' = [usb EXCEPT !.endpoint_lock = w]
            /\ wth' = [wth EXCEPT ![w].pc = "send_xfer"]
       ELSE /\ wth' = [wth EXCEPT ![w] = SendReturns(@, APC_ERROR_USB_TRANSFER_FAILED)]
            /\ UNCHANGED usb
    /\ UNCHANGED <<rpc, wire, nonusb>>

\* the transfer returns (ok: all 4 bytes went out), the lock is released
S_TransferEnd(w, ok) ==
    /\ wth[w].pc = "send_xfer"
    /\ IF ok
       THEN /\ usb' = [usb EXCEPT !.endpoint_lock = LockFree, !.messages_sent = @ + 1]
            /\ wire' = Append(wire, [cin |-> CodeIndex(wth[w].msg[1]),
                                     midi |-> wth[w].msg])
            /\ wth' = [wth EXCEPT ![w] = SendReturns([@ EXCEPT !.sent = @ + 1], APC_SUCCESS)]
       ELSE /\ usb' = [usb EXCEPT !.endpoint_lock = LockFree, !.error_count = @ + 1]
            /\ wth' = [wth EXCEPT ![w] =
                          SendReturns([@ EXCEPT !.incs = @ + 1],
                                      APC_ERROR_USB_TRANSFER_FAILED)]
            /\ UNCHANGED wire
    /\ UNCHANGED <<rpc, nonusb>>

(* ---- SetPadColorsBatch (usb_raw_midi.cpp), PauseReader, ResumeReader ---- *)
\* a thread calls SetPadColorsBatch(pads, colors, count); updates[k] = [pad, color]
CallSetPadColorsBatch(w, updates) ==
    /\ wth[w].pc = "idle"
    /\ wth' = [wth EXCEPT ![w] =
                  IF Len(updates) = 0
                  THEN [IdleWriter EXCEPT !.op = "SetPadColorsBatch", !.args = updates,
                                          !.ret = APC_ERROR_INVALID_PARAMETER,
                                          !.result = APC_ERROR_INVALID_PARAMETER,
                                          !.calls = wth[w].calls + 1]
                  ELSE [IdleWriter EXCEPT !.op = "SetPadColorsBatch", !.args = updates,
                                          !.pc = "pause_begin", !.i = 1,
                                          !.calls = wth[w].calls + 1]]
    /\ UNCHANGED <<usb, rpc, wire, nonusb>>

\* where PauseReader returns to: the loop of SetPadColorsBatch, or the
\* introduction message of RunUSBRawLatencyTest
PauseReturnsTo(l) == IF InLatencyTest(l) THEN "intro" ELSE "batch_loop"

\* PauseReader up to acquire_sem_etc
P_Begin(w) ==
    /\ wth[w].pc = "pause_begin"
    /\ IF usb.reader_thread < 0
       THEN /\ wth' = [wth EXCEPT ![w].pc = PauseReturnsTo(wth[w])]
            /\ UNCHANGED usb
       ELSE /\ usb' = [usb EXCEPT !.pause_requested = TRUE]
            /\ wth' = [wth EXCEPT ![w].pc = "pause_wait"]
    /\ UNCHANGED <<rpc, wire, nonusb>>

\* acquire_sem_etc returns B_OK: it took a count of pause_sem
P_Acquire(w) ==
    /\ wth[w].pc = "pause_wait"
    /\ usb.pause_sem > 0
    /\ usb' = [usb EXCEPT !.pause_sem = @ - 1]
    /\ wth' = [wth EXCEPT ![w].pc = PauseReturnsTo(wth[w]), ![w].acked = TRUE]
    /\ UNCHANGED <<rpc, wire, nonusb>>

\* an acquire_sem_etc without a timeout
NoTimeout == FALSE

\* the reader is where it can stay 100 ms without reaching release_sem: in a
\* blocking transfer, waiting for the lock, in the wait loop of an earlier
\* pause, or after its exit (everywhere else it polls every millisecond)
ReaderStalled ==
    \/ rpc \in {"xfer", "exited"}
    \/ rpc = "paused" /\ ~WaitOver
    \/ rpc = "lock" /\ ~LockAvailable

\* the 100 ms of acquire_sem_etc pass with no count to take
TimeoutExpires == usb.pause_sem = 0 /\ ReaderStalled

\* acquire_sem_etc returns B_TIMED_OUT
P_Timeout(w) ==
    /\ wth[w].pc = "pause_wait"
    /\ TimeoutExpires
    /\ wth' = [wth EXCEPT ![w].pc = PauseReturnsTo(wth[w]), ![w].acked = FALSE]
    /\ UNCHANGED <<usb, rpc, wire, nonusb>>

\* a loop that walks the updates from the last to the first
BatchMessageReversed(updates, k) ==
    <<MIDI_NOTE_ON, APC_MINI_PAD_NOTE_START + updates[Len(updates) + 1 - k].pad,
      updates[Len(updates) + 1 - k].color>>

\* the message SendNoteOn hands to SendMIDI for update k of a batch
BatchMessage(updates, k) ==
    <<MIDI_NOTE_ON, APC_MINI_PAD_NOTE_START + updates[k].pad, updates[k].color>>

\* a loop that returns from inside on a pad outside the grid
B_LoopReturnsOnBadPad(w) ==
    /\ wth[w].pc = "batch_loop"
    /\ LET l == wth[w]
       IN wth' = [wth EXCEPT ![w] =
             IF l.i > Len(l.args)
             THEN [l EXCEPT !.pc = "resume"]
             ELSE IF l.args[l.i].pad >= APC_MINI_PAD_COUNT
             THEN [l EXCEPT !.result = APC_ERROR_INVALID_PARAMETER,
                            !.ret = APC_ERROR_INVALID_PARAMETER, !.pc = "idle"]
             ELSE [l EXCEPT !.msg = BatchMessage(l.args, l.i), !.pc = "send_check"]]
    /\ UNCHANGED <<usb, rpc, wire, nonusb>>

\* the head of the loop of SetPadColorsBatch: the pad test and SendNoteOn
B_Loop(w) ==
    /\ wth[w].pc = "batch_loop"
    /\ LET l == wth[w]
       IN wth' = [wth EXCEPT ![w] =
             IF l.i > Len(l.args)
             THEN [l EXCEPT !.pc = "resume"]
             ELSE IF l.args[l.i].pad >= APC_MINI_PAD_COUNT
             THEN [l EXCEPT !.result = APC_ERROR_INVALID_PARAMETER, !.pc = "resume"]
             ELSE [l EXCEPT !.msg = BatchMessage(l.args, l.i), !.pc = "send_check"]]
    /\ UNCHANGED <<usb, rpc, wire, nonusb>>

\* SendNoteOn returned inside the loop of SetPadColorsBatch
B_AfterSend(w) ==
    /\ wth[w].pc = "batch_after_send"
    /\ LET l == wth[w]
       IN wth' = [wth EXCEPT ![w] =
             IF l.ret # APC_SUCCESS
             THEN [l EXCEPT !.result = l.ret, !.pc = "resume"]
             ELSE [l EXCEPT !.i = l.i + 1, !.pc = "batch_loop"]]
    /\ UNCHANGED <<usb, rpc, wire, nonusb>>

\* ResumeReader, and SetPadColorsBatch returns result
P_Resume(w) ==
    /\ wth[w].pc = "resume"
    /\ usb' = IF usb.reader_thread < 0 THEN usb
              ELSE [usb EXCEPT !.pause_requested = FALSE]
    /\ wth' = [wth EXCEPT ![w].pc = "idle", ![w].ret = wth[w].result]
    /\ UNCHANGED <<rpc, wire, nonusb>>

(* ---- one thread sending batches next to the reader ---- *)
\* the batches a caller submits: 1..BatchCount updates of valid pads
BatchInputs ==
    {[k \in 1..n |-> [pad |-> k - 1, color |-> 1]] : n \in 1..BatchCount}

\* a thread is between the return of PauseReader and the call of ResumeReader
InBatch(w) ==
    /\ wth[w].op = "SetPadColorsBatch"
    /\ wth[w].pc \in {"batch_loop", "send_check", "send_lock", "send_xfer",
                      "batch_after_send", "resume"}

\* the steps of the reader that do not block
ReaderPolls == R_Top \/ R_Ack \/ R_Wait \/ R_Lock(TRUE)

\* acquire_sem_etc returns
PauseReaderReturns == P_Acquire(1) \/ P_Timeout(1)

NextPause ==
    \/ \E spawn_ok \in BOOLEAN : Initialize(TRUE, spawn_ok)
    \/ R_Top
    \/ R_Ack
    \/ R_Wait
    \/ R_Lock(TRUE)
    \/ \E result \in {"none", "packet"} :
          /\ result = "packet" => usb.messages_received < MaxCalls
          /\ R_TransferEnd(result)
    \/ Shutdown
    \/ ShutdownJoin
    \/ wth[1].calls < MaxCalls /\ \E u \in BatchInputs : CallSetPadColorsBatch(1, u)
    \/ P_Begin(1)
    \/ P_Acquire(1)
    \/ P_Timeout(1)
    \/ B_Loop(1)
    \/ S_Check(1)
    \/ S_Lock(1, TRUE)
    \/ S_TransferEnd(1, TRUE)
    \/ B_AfterSend(1)
    \/ P_Resume(1)

SpecPause == Init /\ [][NextPause]_vars

\* the scheduler runs the reader while it is not blocked, and the kernel ends
\* an acquire_sem_etc that time and again has a count to take or a timeout due
FairSpecPause ==
    SpecPause /\ WF_vars(ReaderPolls) /\ SF_vars(PauseReaderReturns)

\* C14: a PauseReader that has requested the pause and waits for the
\* acknowledgement always returns, whatever the reader does (even if it stays
\* in a transfer for ever), and pause_requested is set when it returns
C14_PauseReaderReturns ==
    (wth[1].pc = "pause_wait") ~> (wth[1].pc = "batch_loop" /\ usb.pause_requested)

\* PauseReader returned by its timeout while the reader was still in a transfer
C14_Witness ==
    /\ wth[1].pc = "batch_loop"
    /\ wth[1].i = 1
    /\ ~wth[1].acked
    /\ rpc = "xfer"
    /\ usb.pause_requested

\* C15: once ResumeReader has cleared pause_requested, a reader in its paused
\* wait loop leaves the loop, clears is_paused and comes back to polling the
\* input endpoint, unless a new pause or a stop is requested first
C15_ResumeReleasesReader ==
    (rpc = "paused" /\ ~usb.pause_requested)
        ~> (\/ rpc = "lock" /\ ~usb.is_paused
            \/ usb.pause_requested
            \/ usb.should_stop)

\* the reader acknowledged the pause of the first batch, the batch has called
\* ResumeReader, and the reader is back at the endpoint
C15_Witness ==
    /\ wth[1].op = "SetPadColorsBatch"
    /\ wth[1].pc = "idle"
    /\ wth[1].calls = 1
    /\ wth[1].acked
    /\ rpc = "lock"
    /\ ~usb.is_paused
    /\ ~usb.pause_requested
    /\ ~usb.should_stop

\* C16: while a batch is between the return of its PauseReader call and its
\* ResumeReader call, the reader thread starts no transfer on the endpoint;
\* stated here for the batches whose PauseReader took the acknowledgement
\* (acquire_sem_etc returned B_OK), the case most in the claim's favour
C16_NoReaderTransferInBatch ==
    [][(rpc = "lock" /\ rpc' = "xfer") => ~(InBatch(1) /\ wth[1].acked)]_vars

(* ---- SendSysEx (usb_haiku_midi.cpp) ---- *)
\* a packet builder that marks every packet of 3 bytes as a continuation
SysExPacketNoEndOfThree(data, offset) ==
    LET remaining == Len(data) - offset
    IN IF remaining >= 3
       THEN [cin |-> 4,
             midi |-> <<data[offset + 1], data[offset + 2], data[offset + 3]>>,
             offset |-> offset + 3]
       ELSE IF remaining = 2
       THEN [cin |-> 6,
             midi |-> <<data[offset + 1], data[offset + 2], 0>>,
             offset |-> offset + 2]
       ELSE [cin |-> 5,
             midi |-> <<data[offset + 1], 0, 0>>,
             offset |-> offset + 1]

\* the packet the loop of SendSysEx builds at offset (data[offset] of the code
\* is data[offset + 1] here), and the offset after it
SysExPacket(data, offset) ==
    LET length == Len(data)
        remaining == length - offset
    IN IF remaining >= 3
       THEN [cin |-> IF offset + 3 < length THEN 4 ELSE 7,
             midi |-> <<data[offset + 1], data[offset + 2], data[offset + 3]>>,
             offset |-> offset + 3]
       ELSE IF remaining = 2
       THEN [cin |-> 6,
             midi |-> <<data[offset + 1], data[offset + 2], 0>>,
             offset |-> offset + 2]
       ELSE [cin |-> 5,
             midi |-> <<data[offset + 1], 0, 0>>,
             offset |-> offset + 1]

\* the locals of a thread when its SendSysEx call returns code: to the caller,
\* or to the pad loop of RunUSBRawLatencyTest, which ignores the code
SysExReturns(l, code) ==
    IF InLatencyTest(l)
    THEN [l EXCEPT !.ret = code, !.i = 0, !.pc = "grid"]
    ELSE [l EXCEPT !.ret = code, !.pc = "idle"]

\* a thread calls SendSysEx(data, length)
CallSendSysEx(w, data) ==
    /\ wth[w].pc = "idle"
    /\ wth' = [wth EXCEPT ![w] = [IdleWriter EXCEPT !.pc = "sysex_check",
                                                    !.op = "SendSysEx", !.args = data,
                                                    !.calls = wth[w].calls + 1]]
    /\ UNCHANGED <<usb, rpc, wire, nonusb>>

\* the tests of the roster, the device and endpoint_out at the head of SendSysEx
X_Check(w) ==
    /\ wth[w].pc = "sysex_check"
    /\ wth' = [wth EXCEPT ![w] =
                  IF usb.found_device
                  THEN [@ EXCEPT !.pc = "sysex_lock"]
                  ELSE SysExReturns(@, APC_ERROR_DEVICE_NOT_FOUND)]
    /\ UNCHANGED <<usb, rpc, wire, nonusb>>

\* BAutolock on endpoint_lock; offset = 0, result_code = APC_SUCCESS
X_Lock(w, lock_ok) ==
    /\ wth[w].pc = "sysex_lock"
    /\ lock_ok => LockAvailable
    /\ IF lock_ok
       THEN /\ usb' = [usb EXCEPT !.endpoint_lock = w]
            /\ wth' = [wth EXCEPT ![w].pc = "sysex_loop", ![w].i = 0,
                                  ![w].result = APC_SUCCESS]
       ELSE /\ wth' = [wth EXCEPT ![w] = SysExReturns(@, APC_ERROR_USB_TRANSFER_FAILED)]
            /\ UNCHANGED usb
    /\ UNCHANGED <<rpc, wire, nonusb>>

\* the test of the while loop of SendSysEx; it builds the next packet and
\* starts its transfer, or the function returns and the lock is released
X_Loop(w) ==
    /\ wth[w].pc = "sysex_loop"
    /\ LET l == wth[w]
           packet == SysExPacket(l.args, l.i)
       IN IF l.i < Len(l.args) /\ l.result = APC_SUCCESS
          THEN /\ wth' = [wth EXCEPT ![w] =
                             [l EXCEPT !.msg = <<packet.cin>> \o packet.midi,
                                       !.i = packet.offset, !.pc = "sysex_xfer"]]
               /\ UNCHANGED usb
          ELSE /\ wth' = [wth EXCEPT ![w] = SysExReturns(l, l.result)]
               /\ usb' = [usb EXCEPT !.endpoint_lock = LockFree]
    /\ UNCHANGED <<rpc, wire, nonusb>>

\* BulkTransfer of one packet returns (ok: all 4 bytes went out)
X_TransferEnd(w, ok) ==
    /\ wth[w].pc = "sysex_xfer"
    /\ IF ok
       THEN /\ usb' = [usb EXCEPT !.messages_sent = @ + 1]
            /\ wire' = Append(wire, [cin |-> wth[w].msg[1], midi |-> Tail(wth[w].msg)])
            /\ wth' = [wth EXCEPT ![w].pc = "sysex_loop", ![w].sent = @ + 1]
       ELSE /\ usb' = [usb EXCEPT !.error_count = @ + 1]
            /\ wth' = [wth EXCEPT ![w].pc = "sysex_loop", ![w].incs = @ + 1,
                                  ![w].result = APC_ERROR_USB_TRANSFER_FAILED]
            /\ UNCHANGED wire
    /\ UNCHANGED <<rpc, nonusb>>

(* ---- the reader and NumWriters sending threads on one endpoint ---- *)
\* the threads with a transfer on the endpoint in progress
InTransfer ==
    (IF rpc = "xfer" THEN {ReaderThread} ELSE {})
        \cup {w \in 1 .. NumWriters : wth[w].pc \in {"send_xfer", "sysex_xfer"}}

\* a note-on for pad 0 and a SysEx message of two packets
EndpointNote == <<MIDI_NOTE_ON, 0, 1>>
EndpointSysEx == <<240, 1, 2, 247>>

\* the calls the first n sending threads have made
RECURSIVE CallsMade(_)
CallsMade(n) == IF n = 0 THEN 0 ELSE wth[n].calls + CallsMade(n - 1)

NextEndpoint ==
    \/ Initialize(TRUE, TRUE)
    \/ R_Top
    \/ R_Lock(TRUE)
    \/ \E result \in {"none", "packet"} :
          /\ result = "packet" => usb.messages_received < MaxCalls
          /\ R_TransferEnd(result)
    \/ \E w \in 1 .. NumWriters :
          \/ CallsMade(NumWriters) < MaxCalls /\ CallSendMIDI(w, EndpointNote)
          \/ CallsMade(NumWriters) < MaxCalls /\ CallSendSysEx(w, EndpointSysEx)
          \/ S_Check(w)
          \/ S_Lock(w, TRUE)
          \/ S_TransferEnd(w, TRUE)
          \/ X_Check(w)
          \/ X_Lock(w, TRUE)
          \/ X_Loop(w)
          \/ X_TransferEnd(w, TRUE)

SpecEndpoint == Init /\ [][NextEndpoint]_vars

\* C17: at no time are a transfer of the reader thread and a transfer of a
\* sending thread, or the transfers of two sending threads, in progress
\* together; whoever transfers holds endpoint_lock
C17_EndpointMutex ==
    /\ Cardinality(InTransfer) <= 1
    /\ \A t \in InTransfer : usb.endpoint_lock = t

\* a sending thread transfers while the reader and the other sending thread
\* both wait for the lock
C17_Witness ==
    /\ wth[1].pc = "send_xfer"
    /\ wth[2].pc = "sysex_lock"
    /\ rpc = "lock"

(* ---- batches on a connected device with a driver that does not fail ---- *)
\* batches of 1 .. BatchCount updates: pads counted up from 0, pads counted
\* down from the last pad, and pads counted up with a last pad that is out of range
ColorInputs ==
    UNION {{[k \in 1 .. n |-> [pad |-> k - 1, color |-> 1]],
            [k \in 1 .. n |-> [pad |-> APC_MINI_PAD_COUNT - k, color |-> 3]],
            [k \in 1 .. n |-> [pad |-> IF k = n THEN APC_MINI_PAD_COUNT ELSE k - 1,
                               color |-> 5]]} : n \in 1 .. BatchCount}

\* every pad of a batch is a pad of the grid
ValidPads(updates) == \A k \in 1 .. Len(updates) : updates[k].pad < APC_MINI_PAD_COUNT

\* the last n packets that went out on the endpoint
LastSent(n) == SubSeq(wire, Len(wire) - n + 1, Len(wire))

NextColors ==
    \/ \E spawn_ok \in BOOLEAN : Initialize(TRUE, spawn_ok)
    \/ R_Top
    \/ R_Ack
    \/ R_Wait
    \/ R_Lock(TRUE)
    \/ \E result \in {"none", "packet"} :
          /\ result = "packet" => usb.messages_received < MaxCalls
          /\ R_TransferEnd(result)
    \/ /\ DeviceReady
       /\ wth[1].calls < MaxCalls
       /\ \E u \in ColorInputs : CallSetPadColorsBatch(1, u)
    \/ P_Begin(1)
    \/ P_Acquire(1)
    \/ P_Timeout(1)
    \/ B_Loop(1)
    \/ S_Check(1)
    \/ S_Lock(1, TRUE)
    \/ S_TransferEnd(1, TRUE)
    \/ B_AfterSend(1)
    \/ P_Resume(1)

SpecColors == Init /\ [][NextColors]_vars

\* C18: a SetPadColorsBatch of valid pads on a connected device whose driver
\* does not fail returns APC_SUCCESS, has sent exactly one note-on per update,
\* in the order of the updates, and has not incremented error_count
C18_BatchSendsAllInOrder ==
    LET l == wth[1]
        n == Len(l.args)
    IN (l.op = "SetPadColorsBatch" /\ l.pc = "idle" /\ ValidPads(l.args))
          => /\ l.ret = APC_SUCCESS
             /\ l.sent = n
             /\ l.incs = 0
             /\ usb.error_count = 0
             /\ Len(wire) >= n
             /\ LastSent(n) = [k \in 1 .. n |->
                                  [cin |-> 9,
                                   midi |-> <<MIDI_NOTE_ON, l.args[k].pad, l.args[k].color>>]]

\* a batch of BatchCount updates of valid pads has returned
C18_Witness ==
    /\ wth[1].op = "SetPadColorsBatch"
    /\ wth[1].pc = "idle"
    /\ Len(wth[1].args) = BatchCount
    /\ ValidPads(wth[1].args)
    /\ wth[1].sent = BatchCount
    /\ usb.messages_sent >= BatchCount

(* ---- sends on a device that comes and goes, with a driver that may fail ---- *)
NextSend ==
    \/ Initialize(TRUE, TRUE)
    \/ DeviceRemoved
    \/ \E w \in 1 .. NumWriters :
          \/ wth[w].calls < MaxCalls /\ CallSendMIDI(w, EndpointNote)
          \/ wth[w].calls < MaxCalls /\ CallSendSysEx(w, EndpointSysEx)
          \/ S_Check(w)
          \/ \E lock_ok \in BOOLEAN : S_Lock(w, lock_ok)
          \/ \E ok \in BOOLEAN : S_TransferEnd(w, ok)
          \/ X_Check(w)
          \/ \E lock_ok \in BOOLEAN : X_Lock(w, lock_ok)
          \/ X_Loop(w)
          \/ \E ok \in BOOLEAN : X_TransferEnd(w, ok)

SpecSend == Init /\ [][NextSend]_vars

\* C19: a SendMIDI or SendSysEx call that has returned a failure code has
\* incremented error_count, and one that has returned APC_SUCCESS has not
C19_FailureCountsAsError ==
    \A w \in 1 .. NumWriters :
        (wth[w].op \in {"SendMIDI", "SendSysEx"} /\ wth[w].pc = "idle")
            => /\ wth[w].ret # APC_SUCCESS => wth[w].incs >= 1
               /\ wth[w].ret = APC_SUCCESS => wth[w].incs = 0

(* ---- SysEx payloads of every length on a connected device ---- *)
\* payloads of 0 .. MaxSysExLen bytes, all bytes of a payload different
SysExInputs ==
    {[k \in 1 .. n |-> base + k] : n \in 0 .. MaxSysExLen, base \in {0, 100}}

NextSysEx ==
    \/ Initialize(TRUE, TRUE)
    \/ /\ DeviceReady
       /\ wth[1].calls < MaxCalls
       /\ \E data \in SysExInputs : CallSendSysEx(1, data)
    \/ X_Check(1)
    \/ X_Lock(1, TRUE)
    \/ X_Loop(1)
    \/ X_TransferEnd(1, TRUE)

SpecSysEx == Init /\ [][NextSysEx]_vars

\* the number of payload bytes a SysEx frame carries, by its type code
FramePayloadLen(cin) == CASE cin = 5 -> 1 [] cin = 6 -> 2 [] OTHER -> 3

\* the payload bytes of a sequence of frames, in order
RECURSIVE FramesPayload(_)
FramesPayload(frames) ==
    IF frames = <<>> THEN <<>>
    ELSE SubSeq(Head(frames).midi, 1, FramePayloadLen(Head(frames).cin))
            \o FramesPayload(Tail(frames))

\* C20: a SendSysEx of L >= 1 bytes that succeeds has sent ceil(L/3) frames;
\* every frame but the last has type code 4, the last has type code 5, 6 or 7
\* for 1, 2 or 3 remaining bytes with its unused bytes zero, and the payload
\* bytes of the frames in order are the L bytes of the message
C20_SysExFraming ==
    LET l == wth[1]
        L == Len(l.args)
        n == (L + 2) \div 3
        frames == LastSent(n)
        rest == L - 3 * (n - 1)
    IN (l.op = "SendSysEx" /\ l.pc = "idle" /\ l.ret = APC_SUCCESS /\ L >= 1)
          => /\ l.sent = n
             /\ Len(wire) >= n
             /\ \A k \in 1 .. n - 1 : frames[k].cin = 4
             /\ frames[n].cin = 4 + rest
             /\ \A j \in 1 .. 3 : j > rest => frames[n].midi[j] = 0
             /\ FramesPayload(frames) = l.args

\* a message of two full frames and a message that ends on a frame of one byte
\* have both been sent
C20_Witness ==
    /\ wth[1].op = "SendSysEx"
    /\ wth[1].pc = "idle"
    /\ wth[1].ret = APC_SUCCESS
    /\ Len(wth[1].args) = 6
    /\ wth[1].sent = 2
    /\ wth[1].calls = 2
    /\ Len(wire) = 4
    /\ wire[2].cin = 5

(* ---- loopback: what the send path puts on the endpoint comes back in ---- *)
\* a note-on, a note-off and a control change
ChannelEvents == {<<MIDI_NOTE_ON, 0, 1>>, <<MIDI_NOTE_OFF, 5, 0>>, <<MIDI_CONTROL_CHANGE, 48, 64>>}

\* SysEx messages of 2 .. MaxSysExLen bytes: F0, data bytes, F7
FramedSysEx ==
    {<<240>> \o [k \in 1 .. n |-> k] \o <<247>> : n \in 0 .. MaxSysExLen - 2}

\* the reader's transfer returns the next packet that was sent and not yet
\* read back (cable 0, as SendMIDI and SendSysEx set it)
R_Loopback ==
    /\ Len(usb.delivered) < Len(wire)
    /\ LET sent == wire[Len(usb.delivered) + 1]
       IN R_TransferDone(4, [cn |-> 0, cin |-> sent.cin, midi |-> sent.midi])

NextLoopback ==
    \/ Initialize(TRUE, TRUE)
    \/ R_Top
    \/ R_Lock(TRUE)
    \/ R_Loopback
    \/ /\ DeviceReady
       /\ wth[1].calls < MaxCalls
       /\ \/ \E m \in ChannelEvents : CallSendMIDI(1, m)
          \/ \E data \in FramedSysEx : CallSendSysEx(1, data)
    \/ S_Check(1)
    \/ S_Lock(1, TRUE)
    \/ S_TransferEnd(1, TRUE)
    \/ X_Check(1)
    \/ X_Lock(1, TRUE)
    \/ X_Loop(1)
    \/ X_TransferEnd(1, TRUE)

SpecLoopback == Init /\ [][NextLoopback]_vars

\* the bytes of a list of midi_callback calls, in order
RECURSIVE DeliveredBytes(_)
DeliveredBytes(calls) ==
    IF calls = <<>> THEN <<>> ELSE Head(calls) \o DeliveredBytes(Tail(calls))

\* C21: once the frames of a sent event (note-on, note-off, control change or
\* SysEx message) have all been read back, what the receive path has handed to
\* midi_callback for them is the event that was sent, byte for byte
C21_RoundTrip ==
    LET l == wth[1]
        d == usb.delivered
    IN (/\ l.op \in {"SendMIDI", "SendSysEx"}
        /\ l.pc = "idle"
        /\ l.ret = APC_SUCCESS
        /\ Len(d) = Len(wire))
          => DeliveredBytes(SubSeq(d, Len(d) - l.sent + 1, Len(d))) = l.args

(* ---- a session of latency_benchmark.cpp: Initialize, the setup of ---- *)
(* ---- RunUSBRawLatencyTest, Shutdown                                 ---- *)
\* intro_msg of SendIntroductionMessage
IntroMessage == <<240, 71, 127, 79, 96, 0, 4, 0, 1, 0, 0, 247>>

\* RunUSBRawLatencyTest is entered with a connected transport and calls
\* PauseReader
CallRunUSBRawLatencyTest(w) ==
    /\ wth[w].pc = "idle"
    /\ usb.device_fd >= 0
    /\ wth' = [wth EXCEPT ![w] = [IdleWriter EXCEPT !.op = "RunUSBRawLatencyTest",
                                                    !.pc = "pause_begin",
                                                    !.calls = wth[w].calls + 1]]
    /\ UNCHANGED <<usb, rpc, wire, nonusb>>

\* SendIntroductionMessage calls SendSysEx(intro_msg, sizeof(intro_msg))
L_Intro(w) ==
    /\ wth[w].pc = "intro"
    /\ wth' = [wth EXCEPT ![w].args = IntroMessage, ![w].pc = "sysex_check"]
    /\ UNCHANGED <<usb, rpc, wire, nonusb>>

\* the loop that turns the pads red: SetPadColor for every pad but
\* PAD_NOTE_TEST (GridPads pads here), then ResumeReader
L_Grid(w) ==
    /\ wth[w].pc = "grid"
    /\ LET l == wth[w]
       IN wth' = [wth EXCEPT ![w] =
             IF l.i >= GridPads
             THEN [l EXCEPT !.pc = "resume"]
             ELSE IF l.i = PAD_NOTE_TEST
             THEN [l EXCEPT !.i = l.i + 1]
             ELSE [l EXCEPT !.msg = <<MIDI_NOTE_ON, APC_MINI_PAD_NOTE_START + l.i, 5>>,
                            !.pc = "send_check"]]
    /\ UNCHANGED <<usb, rpc, wire, nonusb>>

\* SetPadColor returned; a failure only prints a warning
L_AfterSend(w) ==
    /\ wth[w].pc = "grid_after_send"
    /\ wth' = [wth EXCEPT ![w].i = @ + 1, ![w].pc = "grid"]
    /\ UNCHANGED <<usb, rpc, wire, nonusb>>

NextSession ==
    \/ \E spawn_ok \in BOOLEAN : Initialize(TRUE, spawn_ok)
    \/ R_Top
    \/ R_Ack
    \/ R_Wait
    \/ R_Lock(TRUE)
    \/ \E result \in {"none", "packet"} :
          /\ result = "packet" => usb.messages_received < MaxCalls
          /\ R_TransferEnd(result)
    \/ wth[1].calls = 0 /\ CallRunUSBRawLatencyTest(1)
    \/ P_Begin(1)
    \/ P_Acquire(1)
    \/ P_Timeout(1)
    \/ L_Intro(1)
    \/ X_Check(1)
    \/ X_Lock(1, TRUE)
    \/ X_Loop(1)
    \/ X_TransferEnd(1, TRUE)
    \/ L_Grid(1)
    \/ S_Check(1)
    \/ S_Lock(1, TRUE)
    \/ S_TransferEnd(1, TRUE)
    \/ L_AfterSend(1)
    \/ P_Resume(1)
    \/ wth[1].pc = "idle" /\ wth[1].calls > 0 /\ Shutdown
    \/ ShutdownJoin

SpecSession == Init /\ [][NextSession]_vars

\* the frames of the introduction message
RECURSIVE SysExFrames(_, _)
SysExFrames(data, offset) ==
    IF offset >= Len(data) THEN <<>>
    ELSE LET packet == SysExPacket(data, offset)
         IN <<[cin |-> packet.cin, midi |-> packet.midi]>>
                \o SysExFrames(data, packet.offset)

IntroFrames == SysExFrames(IntroMessage, 0)

\* what went out so far starts with the introduction message, or is the start
\* of the introduction message
IntroFirst ==
    IF Len(wire) >= Len(IntroFrames)
    THEN SubSeq(wire, 1, Len(IntroFrames)) = IntroFrames
    ELSE wire = SubSeq(IntroFrames, 1, Len(wire))

\* after the frames of the introduction message no SysEx frame goes out
IntroOnce ==
    \A k \in 1 .. Len(wire) : k > Len(IntroFrames) => wire[k].cin \notin 4 .. 7

\* a frame of the introduction message is in transfer only while the reader
\* thread is paused
IntroWhilePaused ==
    (InLatencyTest(wth[1]) /\ wth[1].pc = "sysex_xfer" /\ usb.reader_thread >= 0)
        => usb.is_paused

\* C22: in a session the introduction message goes out once, before every
\* other frame, and its frames go out only while the reader is paused
C22_IntroOnceFirstPaused == IntroFirst /\ IntroOnce /\ IntroWhilePaused

(* ---- the reader receives whatever the endpoint returns ---- *)
\* a pad press, packets with the reserved code indexes 0 and 1, and a pad press
\* on cable 1
ReceivedPackets ==
    {PadPressPacket,
     [cn |-> 0, cin |-> 0, midi |-> <<MIDI_NOTE_ON, 1, 127>>],
     [cn |-> 0, cin |-> 1, midi |-> <<MIDI_NOTE_ON, 2, 127>>],
     [cn |-> 1, cin |-> 9, midi |-> <<MIDI_NOTE_ON, 3, 127>>]}

\* a transfer error, a short read of 2 bytes, a full packet of 4 bytes
ReceivedLengths == {-1, 2, 4}

\* the read gave a malformed frame: too short, a reserved code index, or a
\* cable other than 0
Malformed(rx) ==
    \/ rx.result >= 0 /\ rx.result < 4
    \/ rx.result >= 4 /\ (rx.packet.cin \in {0, 1} \/ rx.packet.cn # 0)

NextReceive ==
    \/ Initialize(TRUE, TRUE)
    \/ R_Top
    \/ R_Lock(TRUE)
    \/ \E n \in ReceivedLengths, packet \in ReceivedPackets :
          /\ usb.messages_received + usb.error_count < MaxCalls
          /\ R_TransferDone(n, packet)

SpecReceive == Init /\ [][NextReceive]_vars

\* C23: when a read ends with a malformed frame, midi_callback is not called,
\* one of the counters of the transport goes up, and the reader is back at the
\* head of its loop
C23_MalformedDroppedAndCounted ==
    [][(rpc = "xfer" /\ rpc' = "top" /\ Malformed(usb'.rx))
          => /\ usb'.delivered = usb.delivered
             /\ \/ usb'.error_count > usb.error_count
                \/ usb'.messages_received > usb.messages_received]_vars

(* ---- callback errors in the metrics of the handler ---- *)
\* the invocations of a drain that ended in an exception
ThrownIn(d) == Cardinality({k \in 1 .. Len(d.calls) : d.calls[k].threw})

\* the event counters GetMetrics exposes
MetricsCounters == {"events_processed", "events_filtered", "callbacks_executed"}

\* C24: the callback invocations that fail during a ProcessPendingEvents call
\* are counted: a counter the handler exposes goes up by their number
C24_CallbackErrorsCounted ==
    [][(lastDrain'.active /\ ThrownIn(lastDrain') > 0)
          => \E f \in MetricsCounters :
                metrics'[f] - metrics[f] = ThrownIn(lastDrain')]_vars

(* ---- Shutdown against the reader ---- *)
\* Shutdown has been called and has returned, and Initialize has not been
\* called since
ShutdownReturned == usb.should_stop /\ ~usb.shutting_down /\ usb.device_fd < 0

\* C25: Shutdown sets should_stop; a reader that is in its paused wait loop
\* while Shutdown waits for it leaves the loop and exits; and once Shutdown has
\* returned, the transport is not connected and the reader thread has exited
\* (so it makes no further transfer and no further callback)
C25_ShutdownJoinsReader ==
    /\ [](usb.shutting_down => usb.should_stop)
    /\ [](ShutdownReturned => (rpc \in {"unborn", "exited"} /\ usb.reader_thread < 0))
    /\ (usb.shutting_down /\ rpc = "paused") ~> (rpc = "exited")

\* Shutdown has returned after it was called during a batch whose pause the
\* reader had acknowledged and which has not called ResumeReader
C25_Witness ==
    /\ ShutdownReturned
    /\ rpc = "exited"
    /\ usb.pause_requested
    /\ wth[1].acked
    /\ wth[1].calls = 1


\* ---------------------------------------------------------------------
\* Initialize: return codes and the transport they leave behind

\* the code USBRawMIDI::Initialize returns: the roster did not find the
\* device -> APC_ERROR_DEVICE_NOT_FOUND; otherwise APC_SUCCESS, whatever
\* spawn_thread returned
InitializeReturns(found, spawn_ok) ==
    IF found THEN APC_SUCCESS ELSE APC_ERROR_DEVICE_NOT_FOUND

\* the reader thread exists and has not exited
ReaderRunning == usb.reader_thread >= 0 /\ rpc \notin {"unborn", "exited"}

\* C26: an Initialize that returns APC_SUCCESS leaves a reader thread
\* running, and an Initialize that returns an error code leaves the
\* transport closed (IsConnected() false, no reader thread)
C26_InitializeAllOrNothing ==
    [][\A found, spawn_ok \in BOOLEAN :
          Initialize(found, spawn_ok) =>
              IF InitializeReturns(found, spawn_ok) = APC_SUCCESS
              THEN ReaderRunning'
              ELSE usb'.device_fd < 0 /\ usb'.reader_thread < 0]_vars


(***************************************************************************)
(* SpecPeek: one thread calls Enqueue, Dequeue and Peek.                   *)
(***************************************************************************)
MaxPeeks == 2

\* a Peek that consumes what it returns
PeekOnRemoving(q) ==
    LET r == DequeueOn(q, 0)
    IN [q |-> [r.q EXCEPT !.stats = q.stats], ret |-> r.ret, message |-> r.message]

\* MIDIMessageQueue::Peek
PeekOn(q) ==
    LET current_read == q.read_index
        current_write == q.write_index
    IN IF current_read = current_write
       THEN [q |-> q, ret |-> FALSE, message |-> DefaultMIDIMessage]
       ELSE [q |-> q, ret |-> TRUE, message |-> q.buffer[current_read]]

\* the calls of Peek completed so far
Peeks == { i \in 1 .. Len(history) : history[i].op = "Peek" }

\* a call of Peek
Peek ==
    /\ Len(history) < MaxOps
    /\ Cardinality(Peeks) < MaxPeeks
    /\ LET r == PeekOn(Queue)
       IN /\ SetQueue(r.q)
          /\ history' = Record("Peek", r.ret, r.message,
                               IF r.ret THEN r.message.sequence ELSE -1)
    /\ UNCHANGED <<ovars, lastRegister, now, ticks, pc, loc, cpc, cloc, started, hvars>>

NextPeek ==
    \/ \E m \in InputMessages : Enqueue(m)
    \/ Dequeue
    \/ Peek

SpecPeek == Init /\ [][NextPeek]_vars

\* the first Dequeue completed after call i, 0 if there is none
NextDequeueAfter(i) ==
    LET later == { j \in i + 1 .. Len(history) : history[j].op = "Dequeue" }
    IN IF later = {} THEN 0 ELSE CHOOSE j \in later : \A k \in later : j <= k

\* a successful Peek and the next Dequeue hand out the same event
PeekForetellsDequeue ==
    \A i \in Peeks :
        (history[i].ret /\ NextDequeueAfter(i) # 0) =>
            /\ history[NextDequeueAfter(i)].ret
            /\ history[NextDequeueAfter(i)].msg = history[i].msg

\* C27: Peek changes neither index, the depth nor any statistic (nor the
\* buffer); it returns false exactly on an empty queue, and otherwise the
\* event at the read index, which is the event the next Dequeue returns
C27_PeekNonRemoving ==
    /\ [][Peek =>
            /\ UNCHANGED <<read_index, write_index, stats, buffer, sequence_counter>>
            /\ GetQueueDepth' = GetQueueDepth
            /\ history'[Len(history')].ret = ~IsEmpty
            /\ ~IsEmpty => history'[Len(history')].msg = buffer[read_index]]_vars
    /\ []PeekForetellsDequeue

\* C27 witness: a Peek on a non-empty queue that held two events, then an
\* Enqueue, then the Dequeue that returns the peeked event; and a Peek on
\* the empty queue
C27_Witness ==
    \E i \in Peeks :
        /\ history[i].ret
        /\ i + 2 <= Len(history)
        /\ history[i + 1].op = "Enqueue" /\ history[i + 1].ret
        /\ history[i + 2].op = "Dequeue" /\ history[i + 2].msg = history[i].msg
        /\ \E j \in Peeks : ~history[j].ret


(***************************************************************************)
(* SpecFader: the fader detection macros and the handler that uses them.   *)
(***************************************************************************)
MaxController == 127

FaderValues == {0, 127}

MaxControlChanges == 2

\* a track-fader test that leaves out the last track fader
IS_TRACK_FADER_CC_ExclusiveEnd(cc) ==
    cc >= APC_MINI_FADER_CC_START /\ cc < APC_MINI_FADER_CC_END

IS_TRACK_FADER_CC(cc) ==
    cc >= APC_MINI_FADER_CC_START /\ cc <= APC_MINI_FADER_CC_END

IS_MASTER_FADER_CC(cc) == cc = APC_MINI_MASTER_CC

IS_ANY_FADER_CC(cc) == IS_TRACK_FADER_CC(cc) \/ IS_MASTER_FADER_CC(cc)

\* APCMiniGUIApp::HandleControlChange.  handled records the controller and
\* what the three macros and the index computation gave for it, changes
\* counts the calls; a write outside track_fader_values sets out_of_bounds.
HandleControlChange(controller, value) ==
    LET fader_index == (controller - APC_MINI_FADER_CC_START) % 256
        seen == [controller |-> controller,
                 is_track |-> IS_TRACK_FADER_CC(controller),
                 is_master |-> IS_MASTER_FADER_CC(controller),
                 is_any |-> IS_ANY_FADER_CC(controller),
                 fader_index |-> fader_index]
    IN /\ device_state.changes < MaxControlChanges
       /\ device_state' =
            IF IS_TRACK_FADER_CC(controller)
            THEN IF fader_index \in DOMAIN device_state.track_fader_values
                 THEN [device_state EXCEPT !.track_fader_values[fader_index] = value,
                                           !.handled = <<seen>>,
                                           !.changes = @ + 1]
                 ELSE [device_state EXCEPT !.out_of_bounds = TRUE,
                                           !.handled = <<seen>>,
                                           !.changes = @ + 1]
            ELSE IF IS_MASTER_FADER_CC(controller)
            THEN [device_state EXCEPT !.master_fader_value = value,
                                      !.handled = <<seen>>,
                                      !.changes = @ + 1]
            ELSE [device_state EXCEPT !.handled = <<seen>>, !.changes = @ + 1]
       /\ UNCHANGED <<usb, rpc, wth, wire, qhvars, lvars, iteration, lastSetPriority>>

NextFader ==
    \E controller \in 0 .. MaxController, value \in FaderValues :
        HandleControlChange(controller, value)

SpecFader == Init /\ [][NextFader]_vars

\* C28: for the controller just handled, the track-fader macro holds exactly
\* for 48..55, the master macro exactly for 56, the any-fader macro is their
\* disjunction, a track fader's index is controller - 48 and lies in 0..7,
\* and no write left the 8-entry fader array
C28_FaderMacros ==
    /\ ~device_state.out_of_bounds
    /\ \A h \in { device_state.handled[i] : i \in DOMAIN device_state.handled } :
        /\ h.is_track <=> h.controller \in 48 .. 55
        /\ h.is_master <=> h.controller = 56
        /\ h.is_any <=> (h.is_track \/ h.is_master)
        /\ h.is_track => /\ h.fader_index = h.controller - 48
                         /\ h.fader_index \in 0 .. 7
                         /\ h.fader_index < APC_MINI_TRACK_FADER_COUNT

\* C28 witness: the last track fader (55) was just handled and stored in
\* entry 7, after the master fader was set
C28_Witness ==
    /\ device_state.handled # <<>>
    /\ device_state.handled[1].controller = 55
    /\ device_state.handled[1].is_track
    /\ device_state.track_fader_values[7] = 127
    /\ device_state.master_fader_value = 127


(***************************************************************************)
(* SpecSPSC: one producer thread and the consumer thread, one atomic       *)
(* operation of Enqueue / Dequeue per step.                                *)
(***************************************************************************)
MaxSpscEnqueues == 6
MaxSpscDequeues == 5

\* the one producer thread
Producer == 1

\* the event the producer passes to its n-th call: the hardware note and the
\* GUI event that carries its own timestamp, in turn
ProducerMessage(n) ==
    IF n % 2 = 1
    THEN Msg(144, 5, 127, MIDI_SOURCE_HARDWARE_USB, MIDI_PRIORITY_HIGH, 0)
    ELSE Msg(240, 71, 1, MIDI_SOURCE_GUI, MIDI_PRIORITY_LOW, 90000)

NextSPSC ==
    \/ (started.enq < MaxSpscEnqueues /\ E_Begin(Producer, ProducerMessage(started.enq + 1)))
    \/ E_CheckFull(Producer)
    \/ E_Stamp(Producer)
    \/ E_Store(Producer)
    \/ E_Publish(Producer)
    \/ E_Return(Producer)
    \/ (started.deq < MaxSpscDequeues /\ D_Begin)
    \/ D_CheckEmpty
    \/ D_Copy
    \/ D_Advance
    \/ D_Return

SpecSPSC == Init /\ [][NextSPSC]_vars

\* the events accepted so far, in the order the producer published them:
\* those of the Enqueue calls that returned true and, last, the one of a
\* call that has published its event and not yet returned
Published ==
    [i \in 1 .. Len(Accepted) |->
        [in |-> Accepted[i].msg, sequence |-> Accepted[i].seq]]
    \o (IF pc[Producer] = "stats"
        THEN <<[in |-> loc[Producer].message,
                sequence |-> loc[Producer].msg_copy.sequence]>>
        ELSE <<>>)

\* C29: one producer and the consumer, any interleaving: the dequeued events
\* are the first accepted events, in order, each one whole (every caller
\* field and the sequence number of the event the producer published)
C29_SpscDeliversPrefix ==
    /\ Len(Delivered) <= Len(Published)
    /\ \A i \in 1 .. Len(Delivered) :
          /\ Delivered[i].msg.sequence = Published[i].sequence
          /\ SameCallerFields(Published[i].in, Delivered[i].msg)
    /\ \A i \in 1 .. Len(Published) : Published[i].sequence = i - 1

\* C29 witness: every slot of the ring was written, the first one twice and
\* read twice, an Enqueue was rejected on a full queue, and a Dequeue
\* returned an event before the Enqueue that published it returned
C29_Witness ==
    /\ Len(Delivered) > MIDI_QUEUE_SIZE
    /\ \E k \in 1 .. Len(history) : history[k].op = "Enqueue" /\ ~history[k].ret
    /\ \E k \in 1 .. Len(history), j \in 1 .. Len(history) :
          /\ k < j
          /\ IsDelivered(history[k])
          /\ IsAccepted(history[j])
          /\ history[k].seq = history[j].seq


\* ---------------------------------------------------------------------
\* PauseReader's acknowledgement and the reader's wait loop

\* the reader is in while (pause_requested && !should_stop) snooze(1000)
ReaderInPauseLoop == rpc = "paused" /\ usb.is_paused

\* C30: from the return of a PauseReader call that took the acknowledgement
\* semaphore until the ResumeReader call, the reader thread is in its paused
\* wait loop (no shutdown being under way)
C30_AckedPauseHoldsReader ==
    (/\ InBatch(1)
     /\ wth[1].acked
     /\ usb.reader_thread >= 0
     /\ ~usb.should_stop) => ReaderInPauseLoop


(***************************************************************************)
(* SpecLooperThreads: StopProcessing is called by one thread and           *)
(* StartProcessing by another.                                             *)
(***************************************************************************)
NextLooperThreads ==
    \/ SetMessageQueue
    \/ /\ Submitted < MaxSubmits
       /\ \E a \in SubmitInputs : SubmitEvent(a[1], a[2], a[3], a[4])
    \/ \E spawn_ok \in BOOLEAN : StartProcessingCall(spawn_ok)
    \/ StopProcessing
    \/ StopProcessingJoin
    \/ \E w \in 1 .. MaxWorkers : W_Check(w)
    \/ \E w \in 1 .. MaxWorkers : W_Process(w)

SpecLooperThreads == Init /\ [][NextLooperThreads]_vars

\* processing threads that have passed while (!should_quit) and are in, or
\* about to enter, ProcessPendingEvents
DrainingWorkers == {w \in 1 .. MaxWorkers : worker[w] = "process"}

\* C31: with StartProcessing and StopProcessing called from different
\* threads, at most one processing thread drains the dispatcher at any moment
C31_OneDrainingWorker == Cardinality(DrainingWorkers) <= 1


(***************************************************************************)
(* SpecLooperFeed: producer threads enqueue (one atomic operation of       *)
(* Enqueue per step) while the processing thread of a started looper runs  *)
(* ProcessingLoop; the producers start once the queue is attached and the  *)
(* loop runs.  FairSpecLooperFeed: the processing thread is scheduled (its *)
(* snooze ends, its loop goes on).                                         *)
(***************************************************************************)
MaxFeedEnqueues == 2

\* a processing thread tests while (!should_quit)
WorkerChecks == \E w \in 1 .. MaxWorkers : W_Check(w)

\* a processing thread's snooze ends after a ProcessPendingEvents call
WorkerProcesses == \E w \in 1 .. MaxWorkers : W_Process(w)

NextLooperFeed ==
    \/ SetMessageQueue
    \/ StartProcessing(TRUE)
    \/ \E p \in Producers :
          /\ message_queue
          /\ looper.is_processing
          /\ started.enq < MaxFeedEnqueues
          /\ E_Begin(p, ProducerMessage(started.enq + 1))
    \/ \E p \in Producers : E_CheckFull(p)
    \/ \E p \in Producers : E_Stamp(p)
    \/ \E p \in Producers : E_Store(p)
    \/ \E p \in Producers : E_Publish(p)
    \/ \E p \in Producers : E_Return(p)
    \/ \E w \in 1 .. MaxWorkers : W_Check(w)
    \/ \E w \in 1 .. MaxWorkers : W_Process(w)

SpecLooperFeed == Init /\ [][NextLooperFeed]_vars

FairSpecLooperFeed ==
    SpecLooperFeed /\ WF_vars(WorkerChecks) /\ WF_vars(WorkerProcesses)

\* C32: while the processing loop runs on a handler with the queue attached,
\* the n-th event accepted by Enqueue is eventually dequeued and handed to
\* ProcessMessage: the count of dequeued events catches up with the count of
\* accepted ones
C32_AcceptedEventuallyProcessed ==
    \A n \in 1 .. MaxFeedEnqueues :
        (looper.is_processing /\ message_queue /\ Len(Accepted) >= n)
            ~> (stats.messages_dequeued >= n
                /\ metrics.events_processed + metrics.events_filtered >= n)


(***************************************************************************)
(* SpecBatchPaths: one thread calls SetPadColorsBatch with valid batches,  *)
(* batches with a pad outside the grid and the empty batch, on a device    *)
(* that can be unplugged and a driver whose transfers can fail.            *)
(***************************************************************************)
NextBatchPaths ==
    \/ \E spawn_ok \in BOOLEAN : Initialize(TRUE, spawn_ok)
    \/ DeviceRemoved
    \/ R_Top
    \/ R_Ack
    \/ R_Wait
    \/ R_Lock(TRUE)
    \/ R_TransferEnd("none")
    \/ /\ wth[1].calls < MaxCalls
       /\ \E u \in ColorInputs \cup {<<>>} : CallSetPadColorsBatch(1, u)
    \/ P_Begin(1)
    \/ P_Acquire(1)
    \/ P_Timeout(1)
    \/ B_Loop(1)
    \/ S_Check(1)
    \/ S_Lock(1, TRUE)
    \/ \E ok \in BOOLEAN : S_TransferEnd(1, ok)
    \/ B_AfterSend(1)
    \/ P_Resume(1)

SpecBatchPaths == Init /\ [][NextBatchPaths]_vars

\* the packets SetPadColorsBatch puts on the endpoint for the first n updates
BatchPackets(updates, n) ==
    [k \in 1 .. n |-> [cin |-> 9,
                       midi |-> <<MIDI_NOTE_ON, APC_MINI_PAD_NOTE_START + updates[k].pad,
                                  updates[k].color>>]]

\* the SetPadColorsBatch call of thread 1 has returned
BatchReturned == wth[1].op = "SetPadColorsBatch" /\ wth[1].pc = "idle"

\* C33: when SetPadColorsBatch has returned, pause_requested is false; a call
\* that returns success has sent every update, a call that returns an error
\* has sent exactly the updates before the first failing one (the one with a
\* pad outside the grid or the one whose send failed) and none after it; the
\* call with count 0 returns invalid-parameter at once and changes nothing of
\* the transport
C33_BatchAlwaysResumes ==
    /\ [](BatchReturned =>
            LET l == wth[1]
            IN /\ ~usb.pause_requested
               /\ l.sent <= Len(wire)
               /\ LastSent(l.sent) = BatchPackets(l.args, l.sent)
               /\ IF l.ret = APC_SUCCESS
                  THEN l.sent = Len(l.args)
                  ELSE /\ l.sent < Len(l.args) \/ l.args = <<>>
                       /\ l.args # <<>> => l.i = l.sent + 1
                       /\ (l.ret = APC_ERROR_INVALID_PARAMETER /\ l.args # <<>>)
                             => l.args[l.i].pad >= APC_MINI_PAD_COUNT)
    /\ [][CallSetPadColorsBatch(1, <<>>) =>
             /\ usb' = usb /\ wire' = wire /\ rpc' = rpc
             /\ BatchReturned'
             /\ wth'[1].ret = APC_ERROR_INVALID_PARAMETER]_vars

\* C33 witness: a batch has returned with a send error after its first update
\* went out, the reader having acknowledged the pause and been resumed, and
\* an earlier call ended on a pad outside the grid or on count 0
C33_Witness ==
    /\ BatchReturned
    /\ wth[1].ret = APC_ERROR_USB_TRANSFER_FAILED
    /\ wth[1].sent = 1
    /\ wth[1].acked
    /\ wth[1].calls = MaxCalls
    /\ ~usb.pause_requested
    /\ usb.reader_thread >= 0


(***************************************************************************)
(* SpecOrigins: events of GUI, hardware and simulation origin are          *)
(* submitted and drained while the clock advances, the feedback policy is  *)
(* switched and the global filter is replaced.                             *)
(***************************************************************************)
\* Arguments of SubmitEvent, one per origin
OriginInputs ==
    { <<144, 6, 20, MIDI_SOURCE_GUI>>,
      <<144, 6, 100, MIDI_SOURCE_HARDWARE_USB>>,
      <<176, 48, 64, MIDI_SOURCE_SIMULATION>> }

NextOrigins ==
    \/ SetMessageQueue
    \/ /\ Submitted < MaxGuiEvents
       /\ \E a \in OriginInputs : SubmitEvent(a[1], a[2], a[3], a[4])
    \/ \E on \in BOOLEAN : SetFeedbackPrevention(on)
    \/ \E f \in GlobalFilters : SetGlobalFilter(f)
    \/ ProcessPendingEvents
    \/ (ticks < MaxQueueTicks /\ Tick)

SpecOrigins == Init /\ [][NextOrigins]_vars

\* C34: in every drain, an event of hardware or simulation origin that the
\* global filter accepts is dispatched, and with feedback prevention off
\* every event the global filter accepts is dispatched; so the only events
\* the policy suppresses are GUI-origin events processed with prevention on
C34_PolicySuppressesOnlyGui ==
    lastDrain.active =>
        \A i \in 1 .. Len(lastDrain.drained) :
            LET e == lastDrain.drained[i]
            IN /\ (e.msg.source # MIDI_SOURCE_GUI /\ ShouldAccept(global_filter, e.msg))
                     => e.dispatched
               /\ (~prevent_feedback /\ ShouldAccept(global_filter, e.msg))
                     => e.dispatched
               /\ (~e.dispatched /\ ShouldAccept(global_filter, e.msg))
                     => (e.msg.source = MIDI_SOURCE_GUI /\ prevent_feedback)

\* C34 witness: with prevention on, one drain suppressed a GUI-origin event
\* inside the window of an earlier dispatched GUI event and dispatched the
\* hardware event that followed it at the same instant
C34_Witness ==
    /\ lastDrain.active
    /\ prevent_feedback
    /\ Len(lastDrain.drained) = 2
    /\ lastDrain.drained[1].msg.source = MIDI_SOURCE_GUI
    /\ ~lastDrain.drained[1].dispatched
    /\ ShouldAccept(global_filter, lastDrain.drained[1].msg)
    /\ lastDrain.drained[2].msg.source = MIDI_SOURCE_HARDWARE_USB
    /\ lastDrain.drained[2].dispatched
    /\ lastDrain.drained[2].at = lastDrain.drained[1].at



\* the last GUI-origin event dispatched before the i-th one of guiLog, or 0
LastDispatchedBefore(i) ==
    IF \E j \in 1 .. i - 1 : guiLog[j].dispatched
    THEN CHOOSE j \in 1 .. i - 1 :
            guiLog[j].dispatched /\ \A k \in j + 1 .. i - 1 : ~guiLog[k].dispatched
    ELSE 0

\* C35: a GUI-origin event processed at least 50 ms after the last dispatched
\* GUI-origin event is dispatched, however many suppressed GUI-origin events
\* were processed in between: a suppressed event does not restart the window.
C35_SuppressedDoesNotRestartWindow ==
    \A i \in 1 .. Len(guiLog) :
        LET j == LastDispatchedBefore(i)
        IN (j > 0 /\ guiLog[i].at - guiLog[j].at >= FEEDBACK_PREVENTION_WINDOW_MS)
               => guiLog[i].dispatched

\* with the policy on, a GUI-origin event was dispatched, the next one was
\* suppressed inside the window, and a third one, less than 50 ms after the
\* suppressed one but at least 50 ms after the dispatched one, was dispatched
C35_Witness ==
    /\ Len(guiLog) = 3
    /\ \A i \in 1 .. 3 : guiLog[i].prevent
    /\ guiLog[1].dispatched /\ ~guiLog[2].dispatched /\ guiLog[3].dispatched
    /\ guiLog[2].at > guiLog[1].at
    /\ guiLog[3].at - guiLog[2].at < FEEDBACK_PREVENTION_WINDOW_MS
    /\ guiLog[3].at - guiLog[1].at >= FEEDBACK_PREVENTION_WINDOW_MS



(***************************************************************************)
(* SpecRegistryRace: the application attaches the queue, starts the        *)
(* processing loop and then registers, unregisters and enables callbacks   *)
(* while events are submitted; the processing thread runs                  *)
(* ProcessPendingEvents one Dequeue and one callbacks entry per step.      *)
(***************************************************************************)
\* the end of ProcessMessage after ExecuteCallbacks: UpdateMetrics and the
\* events_processed counter; the loop of ProcessPendingEvents goes on
X_EndOfDispatch ==
    /\ metrics' = [UpdateMetrics(metrics, 0) EXCEPT !.events_processed = @ + 1]
    /\ last_gui_message_time' =
          LastGuiMessageTime(iteration.message, TRUE, last_gui_message_time, now)
    /\ iteration' = [NoIteration EXCEPT !.processed = iteration.processed + 1]

\* one turn of the range-for of ExecuteCallbacks on the entry at position i
X_Visit(i) ==
    LET entry == callbacks[i]
    IN /\ metrics' = IF /\ entry.enabled
                        /\ ShouldAccept(entry.filter, iteration.message)
                        /\ ~entry.throws
                     THEN [metrics EXCEPT !.callbacks_executed = @ + 1]
                     ELSE metrics
       /\ iteration' = [iteration EXCEPT !.next = @ + 1]
       /\ UNCHANGED last_gui_message_time

\* MIDIEventHandler::ProcessPendingEvents on the processing thread: the test
\* of the loop with its Dequeue, and ProcessMessage up to ExecuteCallbacks
X_Dequeue(w) ==
    /\ worker[w] = "process"
    /\ ~iteration.active
    /\ LET r == DequeueOn(Queue, now)
       IN IF message_queue /\ iteration.processed < max_batch /\ r.ret
          THEN /\ SetQueue(r.q)
               /\ IF ShouldProcessMessage(r.message, global_filter, prevent_feedback,
                                          last_gui_message_time, now)
                  THEN /\ iteration' = [iteration EXCEPT !.active = TRUE, !.next = 1,
                                                         !.registry = callbacks,
                                                         !.message = r.message]
                       /\ UNCHANGED metrics
                  ELSE /\ iteration' = [iteration EXCEPT !.processed = @ + 1]
                       /\ metrics' = [metrics EXCEPT !.events_filtered = @ + 1]
               /\ UNCHANGED worker
          ELSE /\ metrics' = IF message_queue
                             THEN [metrics EXCEPT !.current_queue_depth = GetQueueDepth]
                             ELSE metrics
               /\ iteration' = NoIteration
               /\ worker' = [worker EXCEPT ![w] = "check"]
               /\ UNCHANGED <<buffer, write_index, read_index, sequence_counter, stats>>
    /\ lastDrain' = NoDrain
    /\ UNCHANGED <<now, ticks, history, pc, loc, cpc, cloc, started, message_queue,
                   callbacks, next_callback_id, global_filter, prevent_feedback,
                   last_gui_message_time, priority_map, guiLog, lastRegister,
                   looper, lpc, lnoops, usb, rpc, wth, wire, device_state,
                   lastSetPriority>>

\* MIDIEventHandler::ExecuteCallbacks on the processing thread, one entry per
\* step.  On a vector that another thread changed since begin() the
\* iterators are invalid: the loop may end, or visit any entry of the vector.
X_Callback(w) ==
    /\ worker[w] = "process"
    /\ iteration.active
    /\ IF callbacks = iteration.registry
       THEN IF iteration.next <= Len(callbacks)
            THEN X_Visit(iteration.next)
            ELSE X_EndOfDispatch
       ELSE \/ X_EndOfDispatch
            \/ /\ iteration.next <= MAX_CALLBACKS
               /\ \E i \in 1 .. Len(callbacks) : X_Visit(i)
    /\ lastDrain' = NoDrain
    /\ UNCHANGED <<buffer, write_index, read_index, sequence_counter, stats,
                   now, ticks, history, pc, loc, cpc, cloc, started, message_queue,
                   callbacks, next_callback_id, global_filter, prevent_feedback,
                   priority_map, guiLog, lastRegister,
                   looper, worker, lpc, lnoops, usb, rpc, wth, wire, device_state,
                   lastSetPriority>>

NextRegistryRace ==
    \/ SetMessageQueue
    \/ StartProcessing(TRUE)
    \/ /\ looper.is_processing
       /\ next_callback_id <= MaxRegistrations
       /\ \E k \in CallbackKinds : RegisterCallback(k.filter, k.throws)
    \/ \E id \in 1 .. MaxRegistrations : UnregisterCallback(id)
    \/ \E id \in 1 .. MaxRegistrations, on \in BOOLEAN : SetCallbackEnabled(id, on)
    \/ /\ Submitted < MaxSubmits
       /\ \E a \in SubmitInputs : SubmitEvent(a[1], a[2], a[3], a[4])
    \/ \E w \in 1 .. MaxWorkers : W_Check(w)
    \/ \E w \in 1 .. MaxWorkers : X_Dequeue(w)
    \/ \E w \in 1 .. MaxWorkers : X_Callback(w)

SpecRegistryRace == Init /\ [][NextRegistryRace]_vars

\* C36: while the processing thread iterates the callback registry in
\* ExecuteCallbacks, the registry is the vector the iteration began on: no
\* RegisterCallback, UnregisterCallback or SetCallbackEnabled call has
\* changed it in between.
C36_RegistryStableDuringDispatch ==
    iteration.active => callbacks = iteration.registry



\* C37: while the object is initialized with a reader thread and no Shutdown
\* is under way, the reader thread has not left its polling loop; in
\* particular the reader spawned by an Initialize that follows a Shutdown
\* does not exit on the stop flag of the earlier session.
C37_ReinitializedReaderRuns ==
    (usb.device_fd >= 0 /\ usb.reader_thread >= 0 /\ ~usb.shutting_down)
        => rpc # "exited"



(***************************************************************************)
(* SpecPriority: priorities are set per message type and events of every   *)
(* status class are submitted and drained.                                 *)
(***************************************************************************)
\* priority_map after SetEventPriority(message_type, priority)
SetPriority(map, message_type, priority) ==
    IF message_type < 128
    THEN [map EXCEPT ![message_type] = priority]
    ELSE map

\* MIDIEventHandler::SetEventPriority
SetEventPriority(message_type, priority) ==
    /\ priority_map' = SetPriority(priority_map, message_type, priority)
    /\ lastSetPriority' = [called |-> TRUE, message_type |-> message_type,
                           priority |-> priority]
    /\ lastDrain' = NoDrain
    /\ UNCHANGED <<buffer, write_index, read_index, sequence_counter, stats, now,
                   ticks, history, pc, loc, cpc, cloc, started, message_queue,
                   callbacks, next_callback_id, global_filter, prevent_feedback,
                   last_gui_message_time, metrics, guiLog, lastRegister,
                   lvars, usb, rpc, wth, wire, device_state, iteration>>

\* the status classes the application sets a priority for, and a message
\* type below 128
MessageTypes == {128, 144, 176, 240, 9}

StatusClasses == {128, 144, 176, 240}

Priorities == MIDI_PRIORITY_REALTIME .. MIDI_PRIORITY_GUI

NextPriority ==
    \/ SetMessageQueue
    \/ \E c \in MessageTypes, p \in Priorities : SetEventPriority(c, p)
    \/ /\ Submitted < MaxSubmits
       /\ \E a \in PriorityInputs : SubmitEvent(a[1], a[2], a[3], a[4])
    \/ ProcessPendingEvents

SpecPriority == Init /\ [][NextPriority]_vars

\* C38: after SetEventPriority(c, p) for a status class c of 0x80, 0x90, 0xB0,
\* 0xF0, GetEventPriority(c) returns p, and an event SubmitEvent then stores
\* with a status of class c carries priority p.
C38_SetThenGetPriority ==
    /\ [](\A c \in StatusClasses :
            (lastSetPriority.called /\ lastSetPriority.message_type = c)
                => GetEventPriority(c) = lastSetPriority.priority)
    /\ [][\A a \in PriorityInputs :
            (/\ SubmitEvent(a[1], a[2], a[3], a[4])
             /\ write_index' # write_index
             /\ lastSetPriority.called
             /\ lastSetPriority.message_type = HighNibble(a[1]))
            => buffer'[write_index].priority = lastSetPriority.priority
       ]_vars



\* the reader thread runs its loop and is not inside a transfer
ReaderRunningOutsideTransfer ==
    /\ usb.reader_thread >= 0
    /\ ~usb.should_stop
    /\ rpc \in {"top", "ack", "paused", "lock"}

\* C39: a PauseReader call made while the reader thread is running and not
\* blocked in a transfer does not end by the timeout: the reader acknowledges
\* it through the semaphore, also when the call follows a ResumeReader before
\* the reader has left its paused wait loop.
C39_PauseAcknowledged ==
    [][P_Timeout(1) => ~ReaderRunningOutsideTransfer]_vars



\* no thread is inside Enqueue or Dequeue
NoCallInProgress == (\A p \in Producers : pc[p] = "idle") /\ cpc = "idle"

\* C40: whenever no Enqueue or Dequeue call is in progress, every Enqueue
\* call made so far has incremented exactly one of messages_enqueued and
\* messages_dropped, messages_dequeued counts the successful Dequeue calls,
\* and messages_enqueued - messages_dequeued equals GetQueueDepth(), which
\* lies between 0 and capacity - 1.
C40_CountersMatchBuffer ==
    NoCallInProgress =>
        /\ stats.messages_enqueued + stats.messages_dropped = started.enq
        /\ stats.messages_enqueued = Len(Accepted)
        /\ stats.messages_dequeued = Len(Delivered)
        /\ stats.messages_enqueued - stats.messages_dequeued = GetQueueDepth
        /\ GetQueueDepth \in 0 .. MIDI_QUEUE_SIZE - 1

====
